---------------------------- MODULE Spec2Model ----------------------------
(***************************************************************************)
(* A model of profillic-hmmbuild: the in-process thread pool               *)
(* (thread_loop / pipeline_thread), the distributed master and workers     *)
(* (mpi_master / mpi_worker) and the per-alignment build pipeline          *)
(* (profillic_p7_Builder and the ProfileToCounts converter).               *)
(*                                                                         *)
(* Seven state machines share the module: the thread pool, the             *)
(* distributed run, the build pipeline, the max-length estimator applied   *)
(* to a model, the reweighter and parameterizer applied to a count model,  *)
(* the converter applied to a profile, and the choice of the loop the      *)
(* input goes to.  Each has its own variables, its own initial predicate   *)
(* and next-state relation, and leaves the variables of the others alone.  *)
(***************************************************************************)
EXTENDS Integers, Sequences, FiniteSets, TLC

(***************************************************************************)
(* Bounds of the model.                                                    *)
(***************************************************************************)
\* largest number of alignments in the input file
MaxAli == 3
\* largest number of worker threads (--cpu)
MaxCpus == 2
\* largest number of MPI processes, the master included
MaxProc == 3
\* largest length of a profile, or number of consensus columns of an alignment
MaxLen == 2
\* largest number of nodes of a model given to the max-length estimator
MaxNodes == 3
\* largest number of thresholds the estimator is applied with to one model
MaxRuns == 2
\* largest number of match states of a model given to the parameterizer
MaxStates == 3
\* size of the alphabet of those models
AbcK == 2
\* largest length at which the tail-mass ratio of a model is looked at
MaxWidth == 5
\* largest number of positions of a profile given to the converter
MaxPos == 3
\* largest alphabet size of the converter
MaxAbc == 3

(***************************************************************************)
(* Program constants.                                                      *)
(***************************************************************************)
\* a NULL pointer (msa, hmm) and the index of an unused work item
NULL == 0
\* esl_workqueue_Create(ncpus * 2)
SlotsPerCpu == 2
\* length_bound of profillic_p7_Builder_MaxLength
LengthBound == 200000
\* float holds every int up to 2^24
FloatExact == 16777216

VARIABLES
    \* ---- thread pool: configuration and input -------------------------
    ncpus,      \* number of worker threads
    nsrc,       \* number of alignments the alignment file holds
    optName,    \* cfg->hmmName != NULL (-n was given)
    hasFile,    \* cfg->afp->bf->filename != NULL
    \* ---- thread pool: the work queue ----------------------------------
    rq,         \* queue->readerQueue, FIFO of work items
    wq,         \* queue->workerQueue, FIFO of work items
    \* ---- thread pool: thread_loop (the reader) ------------------------
    rpc,        \* where the reader is
    ritem,      \* the work item the reader holds (item / newItem)
    sstatus,    \* sstatus
    processed,  \* processed
    next,       \* next
    top,        \* the pending list, head first
    nali,       \* cfg->nali
    nnamed,     \* cfg->nnamed
    \* ---- thread pool: pipeline_thread (the workers) -------------------
    wpc,        \* where each worker is
    witem,      \* the work item each worker holds
    \* ---- thread pool: what the run did --------------------------------
    out,        \* the calls of output_result, in order
    built,      \* how many times each alignment went through the pipeline
    fatal,      \* "" or the reason the process exited through p7_Fail / esl_fatal
    \* ---- MPI: configuration and input ----------------------------------
    nproc,         \* cfg->nproc: the master (rank 0) and nproc-1 workers
    msrc,          \* number of alignments the alignment file holds
    \* ---- MPI: mpi_master ------------------------------------------------
    mpc,           \* where the master is
    have_work,     \* have_work
    nproc_working, \* nproc_working
    wi,            \* wi
    mmsa,          \* msa: the alignment read and not yet sent
    msalist,       \* msalist[]
    msaidx,        \* msaidx[]
    mnali,         \* cfg->nali
    xstatus,       \* xstatus
    rstatus,       \* rstatus
    errmsg,        \* errmsg
    \* ---- MPI: mpi_worker and the messages in flight ---------------------
    mwpc,          \* where each worker is
    inbox,         \* per worker, the messages sent by the master, oldest first
    result,        \* per worker, the message sent to the master and not yet received
    \* ---- MPI: what the run did ------------------------------------------
    mout,          \* the calls of output_result that wrote a model, in order
    reported,      \* indices whose failure the master recorded
    late,          \* indices whose result reached the master when xstatus was not OK
    badSend        \* an alignment was sent to a rank that holds one, or to no rank

VARIABLES
    \* ---- the build pipeline: what profillic_p7_Builder is called with ----
    hasProfile,    \* profile_ptr != NULL
    proflen,       \* profile.length(), or the consensus columns of the alignment
    arch,          \* bld->arch_strategy
    effn,          \* bld->effn_strategy
    abcType,       \* bld->abc->type
    w_len,         \* bld->w_len
    w_betaZero,    \* bld->w_beta == 0.0
    use_priors,    \* use_priors
    \* ---- the build pipeline: profillic_p7_Builder and its caller ---------
    bpc,           \* where the builder (or its caller) is
    bstatus,       \* status
    hmm,           \* hmm, the model under construction
    ret_hmm,       \* *opt_hmm, the caller's hmm
    made,          \* what profillic_p7_Profillicmodelmaker returned
    stages         \* the stages that have run, in order

VARIABLES
    \* ---- the estimator applied to one model --------------------------------
    eHmm,          \* hmm: M, the rows t[1..M], and max_length before the call
    eRuns          \* what each application found: threshold, status, max_length

VARIABLES
    \* ---- the count model in effective_seqnumber and profillic_parameterize -
    pHmm,          \* hmm: M, t, mat, ins, nseq, eff_nseq
    pPrev,         \* hmm as it was when the last operation was called
    pOps           \* the operations applied so far, in order

VARIABLES
    \* ---- the converter applied to one profile ----------------------------
    cvK,           \* hmm->abc->K, the size of the alphabet
    cvProfile,     \* profile: its length and its positions 0..length-1
    cvDigitize,    \* esl_abc_DigitizeSymbol on the residues of the profile
    cvNseq,        \* msa->nseq
    cvpc,          \* where the converter is
    cvStatus,      \* status
    cvHmm          \* hmm, and *ret_hmm once the converter has returned

VARIABLES
    \* ---- profillic_usual_master choosing the loop for the input ----------
    runFmt,        \* cfg->fmt
    runFormat,     \* cfg->afp->format
    runCpus,       \* ncpus
    runFile,       \* how many reads of the file return eslOK
    runpc,         \* where the master is
    runProfile,    \* profile_ptr != NULL in the serial loop
    runNali,       \* cfg->nali
    runQueue,      \* the inputs published to the worker queue
    runBuilds      \* the calls of the builder so far, in order

poolVars == <<ncpus, nsrc, optName, hasFile, rq, wq, rpc, ritem, sstatus,
              processed, next, top, nali, nnamed, wpc, witem, out, built, fatal>>

mpiVars == <<nproc, msrc, mpc, have_work, nproc_working, wi, mmsa, msalist, msaidx,
             mnali, xstatus, rstatus, errmsg, mwpc, inbox, result, mout, reported,
             late, badSend>>

buildVars == <<hasProfile, proflen, arch, effn, abcType, w_len, w_betaZero, use_priors,
               bpc, bstatus, hmm, ret_hmm, made, stages>>

estVars == <<eHmm, eRuns>>

parVars == <<pHmm, pPrev, pOps>>

convVars == <<cvK, cvProfile, cvDigitize, cvNseq, cvpc, cvStatus, cvHmm>>

runVars == <<runFmt, runFormat, runCpus, runFile, runpc, runProfile, runNali,
             runQueue, runBuilds>>

moreVars == <<convVars, runVars>>

numVars == <<estVars, parVars, moreVars>>

vars == <<poolVars, mpiVars, buildVars, numVars>>

(***************************************************************************)
(* Work items (WORK_ITEM) and pending items (PENDING_ITEM).                *)
(* An alignment is named by its position in the file, 1..nsrc; an HMM by   *)
(* the alignment it was built from.                                        *)
(***************************************************************************)
NoItem == [id |-> 0, nali |-> 0, msa |-> NULL, hmm |-> NULL, processed |-> FALSE]

FreshItem(i) == [id |-> i, nali |-> 0, msa |-> NULL, hmm |-> NULL, processed |-> FALSE]

ResetItem(it) == [it EXCEPT !.nali = 0, !.processed = FALSE, !.hmm = NULL, !.msa = NULL]

Pending(it) == [nali |-> it.nali, msa |-> it.msa, hmm |-> it.hmm]

Cpus == 1..ncpus

eslOK  == "eslOK"
eslEOF == "eslEOF"

(***************************************************************************)
(* set_msa_name(): the name of the model; counts the named alignments.     *)
(* named: the alignment just read carries a name of its own.               *)
(***************************************************************************)
\* a variant without the test of nnamed against nali
SetMsaNameUncounted(do_mpi, n, cnt, named) ==
    IF ~do_mpi /\ n = 1
    THEN IF optName THEN [ok |-> TRUE, nnamed |-> cnt]
         ELSE IF named THEN [ok |-> TRUE, nnamed |-> cnt + 1]
         ELSE IF hasFile THEN [ok |-> TRUE, nnamed |-> cnt]
         ELSE [ok |-> FALSE, nnamed |-> cnt]
    ELSE IF optName THEN [ok |-> FALSE, nnamed |-> cnt]
         ELSE IF named
              THEN [ok |-> TRUE, nnamed |-> cnt + 1]
              ELSE [ok |-> FALSE, nnamed |-> cnt]

SetMsaName(do_mpi, n, cnt, named) ==
    IF ~do_mpi /\ n = 1
    THEN IF optName THEN [ok |-> TRUE, nnamed |-> cnt]
         ELSE IF named THEN [ok |-> TRUE, nnamed |-> cnt + 1]
         ELSE IF hasFile THEN [ok |-> TRUE, nnamed |-> cnt]
         ELSE [ok |-> FALSE, nnamed |-> cnt]
    ELSE IF optName THEN [ok |-> FALSE, nnamed |-> cnt]
         ELSE IF named
              THEN [ok |-> (cnt + 1 = n), nnamed |-> cnt + 1]
              ELSE [ok |-> FALSE, nnamed |-> cnt]

(***************************************************************************)
(* The pending list of thread_loop.                                        *)
(***************************************************************************)
RECURSIVE InsertAfter(_, _)
InsertAfter(lst, p) ==
    IF Len(lst) > 1 /\ p.nali > lst[2].nali
    THEN <<lst[1]>> \o InsertAfter(Tail(lst), p)
    ELSE <<lst[1], p>> \o Tail(lst)

\* a variant that puts every pending item at the head of the list
InsertFront(lst, p) == <<p>> \o lst

InsertPending(lst, p) ==
    IF lst = <<>> \/ p.nali < lst[1].nali
    THEN <<p>> \o lst
    ELSE InsertAfter(lst, p)

\* a variant that leaves the pending list alone
DrainNothing(lst, n) == <<>>

RECURSIVE DrainRun(_, _)
DrainRun(lst, n) ==
    IF lst # <<>> /\ lst[1].nali = n
    THEN <<lst[1]>> \o DrainRun(Tail(lst), n + 1)
    ELSE <<>>

(***************************************************************************)
(* thread_loop: what the reader does with the item it took from the        *)
(* reader queue (the body of "process any results").  j is the number of   *)
(* output_result calls that succeed; a failing one ends the process.       *)
(***************************************************************************)
EmitRun(it) == <<Pending(it)>> \o DrainRun(top, next + 1)

\* a variant that takes every result to be the next one due
InOrderAlways(it) == TRUE

\* if (item->nali == next)
InOrder(it) == it.nali = next

Collect(it) ==
    IF it.processed
    THEN /\ processed' = processed + 1
         /\ ritem' = ResetItem(it)
         /\ IF InOrder(it)
            THEN \E j \in 0..Len(EmitRun(it)) :
                   /\ out' = out \o SubSeq(EmitRun(it), 1, j)
                   /\ IF j < Len(EmitRun(it))
                      THEN /\ fatal' = "output"
                           /\ UNCHANGED <<next, top>>
                      ELSE /\ fatal' = fatal
                           /\ next' = next + j
                           /\ top' = SubSeq(top, j, Len(top))
            ELSE /\ top' = InsertPending(top, Pending(it))
                 /\ UNCHANGED <<next, out, fatal>>
    ELSE /\ ritem' = it
         /\ UNCHANGED <<processed, next, top, out, fatal>>

(***************************************************************************)
(* Initial state of the thread pool: profillic_usual_master has created    *)
(* the queue with 2*ncpus items in the reader queue (esl_workqueue_Init)   *)
(* and the threads, none of which has run yet.                             *)
(***************************************************************************)
PoolInit ==
    /\ ncpus \in 1..MaxCpus
    /\ nsrc \in 0..MaxAli
    /\ optName \in BOOLEAN
    /\ hasFile \in BOOLEAN
    /\ rq = [i \in 1..(SlotsPerCpu * ncpus) |-> FreshItem(i)]
    /\ wq = <<>>
    /\ rpc = "init"
    /\ ritem = NoItem
    /\ sstatus = eslOK
    /\ processed = 0
    /\ next = 1
    /\ top = <<>>
    /\ nali = 0
    /\ nnamed = 0
    /\ wpc = [w \in Cpus |-> "unstarted"]
    /\ witem = [w \in Cpus |-> NoItem]
    /\ out = <<>>
    /\ built = [i \in 1..MaxAli |-> 0]
    /\ fatal = ""

Running == fatal = ""

(***************************************************************************)
(* thread_loop, lines 1263-1267: wait for the workers to start, take the   *)
(* first item.                                                             *)
(***************************************************************************)
ReaderStart ==
    /\ Running /\ rpc = "init"
    /\ \A w \in Cpus : wpc[w] # "unstarted"
    /\ rq # <<>>
    /\ ritem' = Head(rq)
    /\ rq' = Tail(rq)
    /\ rpc' = "loop"
    /\ UNCHANGED <<ncpus, nsrc, optName, hasFile, wq, sstatus, processed, next,
                   top, nali, nnamed, wpc, witem, out, built, fatal>>

(***************************************************************************)
(* One turn of the main loop, lines 1271-1360, up to the point where       *)
(* esl_workqueue_ReaderUpdate() either hands over an item or blocks.       *)
(***************************************************************************)
\* the read succeeds: an alignment, named or not
ReaderReadOk ==
    /\ Running /\ rpc = "loop" /\ nali < nsrc
    /\ \E named \in BOOLEAN :
         LET r == SetMsaName(FALSE, nali + 1, nnamed, named)
             it == [ritem EXCEPT !.msa = nali + 1, !.nali = nali + 1]
         IN /\ nali' = nali + 1
            /\ nnamed' = r.nnamed
            /\ IF ~r.ok
               THEN /\ fatal' = "name"
                    /\ ritem' = it
                    /\ UNCHANGED <<rq, wq, rpc, processed, next, top, out>>
               ELSE /\ wq' = Append(wq, it)
                    /\ IF rq # <<>>
                       THEN /\ rq' = Tail(rq)
                            /\ Collect(Head(rq))
                            /\ rpc' = "loop"
                       ELSE /\ rpc' = "block"
                            /\ ritem' = NoItem
                            /\ UNCHANGED <<rq, processed, next, top, out, fatal>>
    /\ UNCHANGED <<ncpus, nsrc, optName, hasFile, sstatus, wpc, witem, built>>

\* the read fails: eslx_msafile_ReadFailure() ends the process
ReaderReadFail ==
    /\ Running /\ rpc = "loop" /\ nali < nsrc
    /\ fatal' = "read"
    /\ UNCHANGED <<ncpus, nsrc, optName, hasFile, rq, wq, rpc, ritem, sstatus,
                   processed, next, top, nali, nnamed, wpc, witem, out, built>>

\* end of data while results are outstanding: the item goes out with no msa
ReaderEofMore ==
    /\ Running /\ rpc = "loop" /\ nali = nsrc
    /\ processed < nali
    /\ wq' = Append(wq, [ritem EXCEPT !.msa = NULL])
    /\ IF rq # <<>>
       THEN /\ rq' = Tail(rq)
            /\ Collect(Head(rq))
            /\ rpc' = "loop"
       ELSE /\ rpc' = "block"
            /\ ritem' = NoItem
            /\ UNCHANGED <<rq, processed, next, top, out, fatal>>
    /\ UNCHANGED <<ncpus, nsrc, optName, hasFile, sstatus, nali, nnamed, wpc,
                   witem, built>>

\* end of data and nothing outstanding: the loop exits, lines 1362-1378
ReaderEofExit ==
    /\ Running /\ rpc = "loop" /\ nali = nsrc
    /\ ~(processed < nali)
    /\ sstatus' = eslEOF
    /\ IF top # <<>>
       THEN /\ fatal' = "top"
            /\ UNCHANGED <<wq, rpc, ritem>>
       ELSE /\ wq' = Append(wq, [ritem EXCEPT !.msa = NULL])
            /\ ritem' = NoItem
            /\ rpc' = "join"
            /\ fatal' = fatal
    /\ UNCHANGED <<ncpus, nsrc, optName, hasFile, rq, processed, next, top,
                   nali, nnamed, wpc, witem, out, built>>

\* esl_workqueue_ReaderUpdate() returns once the reader queue holds an item
ReaderWake ==
    /\ Running /\ rpc = "block"
    /\ rq # <<>>
    /\ rq' = Tail(rq)
    /\ Collect(Head(rq))
    /\ rpc' = "loop"
    /\ UNCHANGED <<ncpus, nsrc, optName, hasFile, wq, sstatus, nali, nnamed,
                   wpc, witem, built>>

\* esl_threads_WaitForFinish(), esl_workqueue_Complete(), return
ReaderJoin ==
    /\ Running /\ rpc = "join"
    /\ \A w \in Cpus : wpc[w] = "finished"
    /\ rpc' = "done"
    /\ UNCHANGED <<ncpus, nsrc, optName, hasFile, rq, wq, ritem, sstatus,
                   processed, next, top, nali, nnamed, wpc, witem, out, built,
                   fatal>>

(***************************************************************************)
(* pipeline_thread.                                                        *)
(***************************************************************************)
\* esl_threads_Started(), then the first esl_workqueue_WorkerUpdate() waits
WorkerStarted(w) ==
    /\ Running /\ wpc[w] = "unstarted"
    /\ wpc' = [wpc EXCEPT ![w] = "wait"]
    /\ UNCHANGED <<ncpus, nsrc, optName, hasFile, rq, wq, rpc, ritem, sstatus,
                   processed, next, top, nali, nnamed, witem, out, built, fatal>>

\* a variant in which the loop ends whatever the item carries
WorkerGoesAway(it) == "leave"

\* where a worker goes with the item it dequeued: while (item->msa != NULL)
WorkerGoes(it) == IF it.msa # NULL THEN "build" ELSE "leave"

\* a variant in which the item stays in the worker queue
WorkerTakeDup(w) ==
    /\ Running /\ wpc[w] = "wait"
    /\ wq # <<>>
    /\ witem' = [witem EXCEPT ![w] = Head(wq)]
    /\ wpc' = [wpc EXCEPT ![w] = WorkerGoes(Head(wq))]
    /\ UNCHANGED <<ncpus, nsrc, optName, hasFile, rq, wq, rpc, ritem, sstatus,
                   processed, next, top, nali, nnamed, out, built, fatal>>

\* a waiting worker dequeues the head of the worker queue
WorkerTake(w) ==
    /\ Running /\ wpc[w] = "wait"
    /\ wq # <<>>
    /\ witem' = [witem EXCEPT ![w] = Head(wq)]
    /\ wq' = Tail(wq)
    /\ wpc' = [wpc EXCEPT ![w] = WorkerGoes(Head(wq))]
    /\ UNCHANGED <<ncpus, nsrc, optName, hasFile, rq, rpc, ritem, sstatus,
                   processed, next, top, nali, nnamed, out, built, fatal>>

\* the item a worker hands back after a successful build
BuiltItem(it) == [it EXCEPT !.hmm = it.msa, !.processed = TRUE]

\* the loop body, lines 1411-1435: build, mark processed, swap the item
WorkerBuild(w) ==
    /\ Running /\ wpc[w] = "build"
    /\ built' = [built EXCEPT ![witem[w].msa] = @ + 1]
    /\ rq' = Append(rq, BuiltItem(witem[w]))
    /\ IF wq # <<>>
       THEN /\ witem' = [witem EXCEPT ![w] = Head(wq)]
            /\ wq' = Tail(wq)
            /\ wpc' = [wpc EXCEPT ![w] = WorkerGoes(Head(wq))]
       ELSE /\ witem' = [witem EXCEPT ![w] = NoItem]
            /\ wpc' = [wpc EXCEPT ![w] = "wait"]
            /\ wq' = wq
    /\ UNCHANGED <<ncpus, nsrc, optName, hasFile, rpc, ritem, sstatus,
                   processed, next, top, nali, nnamed, out, fatal>>

\* the build fails: p7_Fail("build failed") ends the process
WorkerBuildFail(w) ==
    /\ Running /\ wpc[w] = "build"
    /\ built' = [built EXCEPT ![witem[w].msa] = @ + 1]
    /\ fatal' = "build"
    /\ UNCHANGED <<ncpus, nsrc, optName, hasFile, rq, wq, rpc, ritem, sstatus,
                   processed, next, top, nali, nnamed, wpc, witem, out>>

\* a variant in which the last item is not given back
WorkerLeaveKeeps(w) ==
    /\ Running /\ wpc[w] = "leave"
    /\ witem' = [witem EXCEPT ![w] = NoItem]
    /\ wpc' = [wpc EXCEPT ![w] = "finished"]
    /\ UNCHANGED <<ncpus, nsrc, optName, hasFile, rq, wq, rpc, ritem, sstatus,
                   processed, next, top, nali, nnamed, out, built, fatal>>

\* after the loop, lines 1438-1442: give the item back and finish
WorkerLeave(w) ==
    /\ Running /\ wpc[w] = "leave"
    /\ rq' = Append(rq, witem[w])
    /\ witem' = [witem EXCEPT ![w] = NoItem]
    /\ wpc' = [wpc EXCEPT ![w] = "finished"]
    /\ UNCHANGED <<ncpus, nsrc, optName, hasFile, wq, rpc, ritem, sstatus,
                   processed, next, top, nali, nnamed, out, built, fatal>>

PoolNext ==
    \/ ReaderStart /\ UNCHANGED <<mpiVars, buildVars, numVars>>
    \/ ReaderReadOk /\ UNCHANGED <<mpiVars, buildVars, numVars>>
    \/ ReaderReadFail /\ UNCHANGED <<mpiVars, buildVars, numVars>>
    \/ ReaderEofMore /\ UNCHANGED <<mpiVars, buildVars, numVars>>
    \/ ReaderEofExit /\ UNCHANGED <<mpiVars, buildVars, numVars>>
    \/ ReaderWake /\ UNCHANGED <<mpiVars, buildVars, numVars>>
    \/ ReaderJoin /\ UNCHANGED <<mpiVars, buildVars, numVars>>
    \/ \E w \in Cpus : WorkerStarted(w) /\ UNCHANGED <<mpiVars, buildVars, numVars>>
    \/ \E w \in Cpus : WorkerTake(w) /\ UNCHANGED <<mpiVars, buildVars, numVars>>
    \/ \E w \in Cpus : WorkerBuild(w) /\ UNCHANGED <<mpiVars, buildVars, numVars>>
    \/ \E w \in Cpus : WorkerBuildFail(w) /\ UNCHANGED <<mpiVars, buildVars, numVars>>
    \/ \E w \in Cpus : WorkerLeave(w) /\ UNCHANGED <<mpiVars, buildVars, numVars>>

(***************************************************************************)
(* The distributed run: mpi_master and mpi_worker.                         *)
(*                                                                         *)
(* A message from the master to a worker is an alignment, or NULL for the  *)
(* shutdown; esl_msa_MPISend is taken to complete once the message is      *)
(* buffered, except that a send of an alignment to a worker that has       *)
(* returned from mpi_worker may also never complete.  A message from a     *)
(* worker to the master carries the status and, with it, the HMM or the    *)
(* error text; a worker has at most one such message in flight.            *)
(***************************************************************************)
Workers == 1..(nproc - 1)

eslEFORMAT == "eslEFORMAT"
eslEWRITE  == "eslEWRITE"
eslEINVAL  == "eslEINVAL"

NoMsg == [st |-> "none", msa |-> NULL]

NoErr == [src |-> "unset", idx |-> 0]

MpiInit ==
    /\ nproc \in 2..MaxProc
    /\ msrc \in 0..MaxAli
    /\ mpc = "loop"
    /\ have_work = TRUE
    /\ nproc_working = 0
    /\ wi = 1
    /\ mmsa = NULL
    /\ msalist = [w \in Workers |-> NULL]
    /\ msaidx = [w \in Workers |-> 0]
    /\ mnali = 0
    /\ xstatus = eslOK
    /\ rstatus = eslOK
    /\ errmsg = NoErr
    /\ mwpc = [w \in Workers |-> "recv"]
    /\ inbox = [w \in Workers |-> <<>>]
    /\ result = [w \in Workers |-> NoMsg]
    /\ mout = <<>>
    /\ reported = {}
    /\ late = {}
    /\ badSend = FALSE

\* the state of the MPI variables in a run that is not an MPI run
MpiOff ==
    /\ nproc = 2
    /\ msrc = 0
    /\ mpc = "off"
    /\ have_work = FALSE
    /\ nproc_working = 0
    /\ wi = 1
    /\ mmsa = NULL
    /\ msalist = [w \in Workers |-> NULL]
    /\ msaidx = [w \in Workers |-> 0]
    /\ mnali = 0
    /\ xstatus = eslOK
    /\ rstatus = eslOK
    /\ errmsg = NoErr
    /\ mwpc = [w \in Workers |-> "off"]
    /\ inbox = [w \in Workers |-> <<>>]
    /\ result = [w \in Workers |-> NoMsg]
    /\ mout = <<>>
    /\ reported = {}
    /\ late = {}
    /\ badSend = FALSE

\* the state of the thread-pool variables in a run without thread pool
PoolOff ==
    /\ ncpus = 1
    /\ nsrc = 0
    /\ optName = FALSE
    /\ hasFile = FALSE
    /\ rq = <<>>
    /\ wq = <<>>
    /\ rpc = "off"
    /\ ritem = NoItem
    /\ sstatus = eslOK
    /\ processed = 0
    /\ next = 1
    /\ top = <<>>
    /\ nali = 0
    /\ nnamed = 0
    /\ wpc = [w \in Cpus |-> "off"]
    /\ witem = [w \in Cpus |-> NoItem]
    /\ out = <<>>
    /\ built = [i \in 1..MaxAli |-> 0]
    /\ fatal = ""

\* what eslx_msafile_Read() can return at this point of the file
ReadOutcomes ==
    IF ~have_work THEN {rstatus}
    ELSE IF mnali < msrc THEN {eslOK, eslEFORMAT}
    ELSE {eslEOF}

\* a variant that awaits a result only when nothing is left to send
MustReceiveWhenDone(hw, npw) == ~hw /\ npw > 0

\* line 964: the master waits for a result before going on
MustReceive(hw, npw) ==
    (hw /\ npw = nproc - 1) \/ (~hw /\ npw > 0)

\* a variant that unpacks every result, whatever the status
UnpacksAlways(x) == TRUE

\* line 982: the result buffer is unpacked only while the status is OK
Unpacks(x) == x = eslOK

\* a variant that does not keep the alignment it sends
SendToUnrecorded(w, m, idx, ml, mi, npw) ==
    [msalist |-> ml,
     msaidx  |-> IF w \in Workers THEN [mi EXCEPT ![w] = idx] ELSE mi,
     inbox   |-> IF w \in Workers THEN [inbox EXCEPT ![w] = Append(@, m)] ELSE inbox,
     wi      |-> w + 1,
     npw     |-> npw + 1,
     bad     |-> badSend \/ w \notin Workers \/ (w \in Workers /\ ml[w] # NULL)]

\* a variant that files every alignment under index 1
SendToAsFirst(w, m, idx, ml, mi, npw) ==
    [msalist |-> IF w \in Workers THEN [ml EXCEPT ![w] = m] ELSE ml,
     msaidx  |-> IF w \in Workers THEN [mi EXCEPT ![w] = 1] ELSE mi,
     inbox   |-> IF w \in Workers THEN [inbox EXCEPT ![w] = Append(@, m)] ELSE inbox,
     wi      |-> w + 1,
     npw     |-> npw + 1,
     bad     |-> badSend \/ w \notin Workers \/ (w \in Workers /\ ml[w] # NULL)]

\* lines 1014-1023: alignment m, the idx-th of the file, goes to rank w;
\* ml, mi, npw are msalist, msaidx and nproc_working before the send
SendTo(w, m, idx, ml, mi, npw) ==
    [msalist |-> IF w \in Workers THEN [ml EXCEPT ![w] = m] ELSE ml,
     msaidx  |-> IF w \in Workers THEN [mi EXCEPT ![w] = idx] ELSE mi,
     inbox   |-> IF w \in Workers THEN [inbox EXCEPT ![w] = Append(@, m)] ELSE inbox,
     wi      |-> w + 1,
     npw     |-> npw + 1,
     bad     |-> badSend \/ w \notin Workers \/ (w \in Workers /\ ml[w] # NULL)]

\* whether a send of an alignment to rank w may fail to complete
MayBlock(w) == IF w \in Workers /\ mwpc[w] = "exited" THEN BOOLEAN ELSE {FALSE}

(***************************************************************************)
(* mpi_master, one turn of the main loop (lines 954-1024) up to MPI_Probe: *)
(* read the next alignment; if no result has to be awaited, send it.       *)
(***************************************************************************)
MasterLoop ==
    /\ mpc = "loop"
    /\ have_work \/ nproc_working > 0
    /\ \E r \in ReadOutcomes :
         LET ok == have_work /\ r = eslOK
             m1 == IF ok THEN mnali + 1 ELSE mmsa
             n1 == IF ok THEN mnali + 1 ELSE mnali
             s  == SendTo(wi, m1, n1, msalist, msaidx, nproc_working)
         IN /\ have_work' = ok
            /\ mnali' = n1
            /\ rstatus' = r
            /\ xstatus' = IF have_work /\ r \notin {eslOK, eslEOF} THEN r ELSE xstatus
            /\ IF MustReceive(ok, nproc_working)
               THEN /\ mpc' = "probe"
                    /\ mmsa' = m1
                    /\ UNCHANGED <<nproc_working, wi, msalist, msaidx, inbox, badSend>>
               ELSE IF ok
               THEN \E blocks \in MayBlock(wi) :
                      IF blocks
                      THEN /\ mpc' = "sendblocked"
                           /\ mmsa' = m1
                           /\ UNCHANGED <<nproc_working, wi, msalist, msaidx, inbox, badSend>>
                      ELSE /\ mpc' = "loop"
                           /\ mmsa' = NULL
                           /\ msalist' = s.msalist
                           /\ msaidx' = s.msaidx
                           /\ inbox' = s.inbox
                           /\ wi' = s.wi
                           /\ nproc_working' = s.npw
                           /\ badSend' = s.bad
               ELSE /\ mpc' = "loop"
                    /\ mmsa' = m1
                    /\ UNCHANGED <<nproc_working, wi, msalist, msaidx, inbox, badSend>>
    /\ UNCHANGED <<nproc, msrc, errmsg, mwpc, result, mout, reported, late>>

(***************************************************************************)
(* mpi_master, the rest of the turn (lines 966-1023): MPI_Probe returns    *)
(* with a message of some worker w; the result is written, its error       *)
(* recorded, or it is dropped; the worker's slot is cleared; the alignment *)
(* in hand, if any, is sent to w.  wok: output_result succeeds.            *)
(***************************************************************************)
MasterRecv ==
    /\ mpc = "probe"
    /\ \E w \in Workers :
         /\ result[w].st # "none"
         /\ LET msg    == result[w]
                unp    == Unpacks(xstatus)
                x1     == IF unp THEN msg.st ELSE xstatus
                writes == unp /\ x1 = eslOK
                ml     == [msalist EXCEPT ![w] = NULL]
                mi     == [msaidx EXCEPT ![w] = 0]
                s      == SendTo(w, mmsa, mnali, ml, mi, nproc_working - 1)
            IN \E wok \in (IF writes THEN BOOLEAN ELSE {TRUE}) :
               \E blocks \in (IF have_work THEN MayBlock(w) ELSE {FALSE}) :
                 /\ xstatus' = IF writes /\ ~wok THEN eslEWRITE ELSE x1
                 /\ errmsg' = IF unp /\ x1 # eslOK
                              THEN [src |-> "worker", idx |-> msg.msa]
                              ELSE IF writes /\ ~wok
                              THEN [src |-> "output", idx |-> msaidx[w]]
                              ELSE errmsg
                 /\ mout' = IF writes /\ wok
                            THEN Append(mout, [idx |-> msaidx[w], msa |-> msalist[w],
                                               hmm |-> msg.msa, from |-> w])
                            ELSE mout
                 /\ reported' = IF unp /\ ~(writes /\ wok)
                                THEN reported \cup {msaidx[w]}
                                ELSE reported
                 /\ late' = IF xstatus = eslOK THEN late ELSE late \cup {msaidx[w]}
                 /\ result' = [result EXCEPT ![w] = NoMsg]
                 /\ IF have_work /\ ~blocks
                    THEN /\ mpc' = "loop"
                         /\ mmsa' = NULL
                         /\ msalist' = s.msalist
                         /\ msaidx' = s.msaidx
                         /\ inbox' = s.inbox
                         /\ wi' = s.wi
                         /\ nproc_working' = s.npw
                         /\ badSend' = s.bad
                    ELSE /\ mpc' = IF blocks THEN "sendblocked" ELSE "loop"
                         /\ msalist' = ml
                         /\ msaidx' = mi
                         /\ wi' = w
                         /\ nproc_working' = nproc_working - 1
                         /\ UNCHANGED <<mmsa, inbox, badSend>>
    /\ UNCHANGED <<nproc, msrc, have_work, mnali, rstatus, mwpc>>

(***************************************************************************)
(* mpi_master after the loop (lines 1026-1040): the shutdown message to    *)
(* every worker, then the way the master ends.                             *)
(***************************************************************************)
MasterShutdown ==
    /\ mpc = "loop"
    /\ ~(have_work \/ nproc_working > 0)
    /\ inbox' = [w \in Workers |-> Append(inbox[w], NULL)]
    /\ mpc' = IF rstatus # eslOK THEN "readfailure"
              ELSE IF xstatus # eslOK THEN "failed"
              ELSE "returned"
    /\ UNCHANGED <<nproc, msrc, have_work, nproc_working, wi, mmsa, msalist, msaidx,
                   mnali, xstatus, rstatus, errmsg, mwpc, result, mout, reported,
                   late, badSend>>

(***************************************************************************)
(* mpi_worker, one turn of the receive loop (lines 1125-1182): the next    *)
(* message is the shutdown, or an alignment that is built and answered.    *)
(***************************************************************************)
WorkerShutdown(w) ==
    /\ mwpc[w] = "recv"
    /\ inbox[w] # <<>> /\ Head(inbox[w]) = NULL
    /\ inbox' = [inbox EXCEPT ![w] = Tail(@)]
    /\ mwpc' = [mwpc EXCEPT ![w] = "exited"]
    /\ UNCHANGED <<nproc, msrc, mpc, have_work, nproc_working, wi, mmsa, msalist,
                   msaidx, mnali, xstatus, rstatus, errmsg, result, mout, reported,
                   late, badSend>>

WorkerBuilds(w) ==
    /\ mwpc[w] = "recv"
    /\ inbox[w] # <<>> /\ Head(inbox[w]) # NULL
    /\ inbox' = [inbox EXCEPT ![w] = Tail(@)]
    /\ result' = [result EXCEPT ![w] = [st |-> eslOK, msa |-> Head(inbox[w])]]
    /\ UNCHANGED <<nproc, msrc, mpc, have_work, nproc_working, wi, mmsa, msalist,
                   msaidx, mnali, xstatus, rstatus, errmsg, mwpc, mout, reported,
                   late, badSend>>

\* the build fails: the error message goes to the master, the worker returns
WorkerFails(w) ==
    /\ mwpc[w] = "recv"
    /\ inbox[w] # <<>> /\ Head(inbox[w]) # NULL
    /\ inbox' = [inbox EXCEPT ![w] = Tail(@)]
    /\ result' = [result EXCEPT ![w] = [st |-> eslEINVAL, msa |-> Head(inbox[w])]]
    /\ mwpc' = [mwpc EXCEPT ![w] = "exited"]
    /\ UNCHANGED <<nproc, msrc, mpc, have_work, nproc_working, wi, mmsa, msalist,
                   msaidx, mnali, xstatus, rstatus, errmsg, mout, reported,
                   late, badSend>>

MpiNext ==
    \/ MasterLoop /\ UNCHANGED <<poolVars, buildVars, numVars>>
    \/ MasterRecv /\ UNCHANGED <<poolVars, buildVars, numVars>>
    \/ MasterShutdown /\ UNCHANGED <<poolVars, buildVars, numVars>>
    \/ \E w \in Workers : WorkerShutdown(w) /\ UNCHANGED <<poolVars, buildVars, numVars>>
    \/ \E w \in Workers : WorkerBuilds(w) /\ UNCHANGED <<poolVars, buildVars, numVars>>
    \/ \E w \in Workers : WorkerFails(w) /\ UNCHANGED <<poolVars, buildVars, numVars>>

(***************************************************************************)
(* The build pipeline: profillic_p7_Builder, the functions it calls and    *)
(* its caller profillic_serial_loop.  A stage that is a library call whose *)
(* status the builder tests may return a failure; memory exhaustion is     *)
(* left out.                                                               *)
(***************************************************************************)
eslENORESULT == "eslENORESULT"
eslERANGE    == "eslERANGE"

\* no model: a NULL P7_HMM pointer
NullHmm == [null |-> TRUE, M |-> 0, max_length |-> 0]

\* p7_hmm_Create(M, abc): a model of M nodes whose max_length is not set
NewHmm(M) == [null |-> FALSE, M |-> M, max_length |-> -1]

\* profillic_p7_Profillicmodelmaker has not been called
NotMade == [status |-> "none", hmm |-> NullHmm]

Alphabets == {"eslAMINO", "eslDNA", "eslRNA"}

\* -1: --w_length is not given
WLens == {-1, 4}

\* a variant of the converter without the test of the length
ProfillicmodelmakerUnchecked(len) == [status |-> eslOK, hmm |-> NewHmm(len)]

\* profillic_p7_Profillicmodelmaker: the status returned and *ret_hmm
profillic_p7_Profillicmodelmaker(len) ==
    IF len = 0
    THEN [status |-> eslENORESULT, hmm |-> NullHmm]
    ELSE [status |-> eslOK, hmm |-> NewHmm(len)]

\* what p7_Fastmodelmaker or p7_Handmodelmaker can return for the alignment
ArchOutcomes ==
    (IF proflen = 0 THEN {eslENORESULT} ELSE {eslOK})
      \cup (IF arch = "p7_ARCH_HAND" THEN {eslEFORMAT} ELSE {})

\* profillic_build_model: the status returned, *ret_hmm, and the result of
\* the converter.  With a profile the status of the converter is dropped.
profillic_build_model ==
    IF hasProfile
    THEN LET r == profillic_p7_Profillicmodelmaker(proflen)
         IN {[status |-> eslOK, hmm |-> r.hmm, made |-> r]}
    ELSE {[status |-> st,
           hmm |-> IF st = eslOK THEN NewHmm(proflen) ELSE NullHmm,
           made |-> NotMade] : st \in ArchOutcomes}

\* a variant that runs the estimator for every model
RunsMaxLengthAlways == TRUE

\* lines 526-530: the max-length estimator is called
RunsMaxLength ==
    /\ abcType \in {"eslDNA", "eslRNA"}
    /\ w_len <= 0
    /\ ~w_betaZero

\* a variant without the case of a model of one node
MaxLengthWithoutShortcut(M, prior, col) ==
    LET ml == IF col = 0 THEN prior ELSE col
    IN [status |-> IF ml >= LengthBound THEN eslERANGE ELSE eslOK, max_length |-> ml]

\* profillic_p7_Builder_MaxLength on a model of M nodes with max_length
\* prior; col is the first column at which surv < emit_thresh, 0 if none
profillic_p7_Builder_MaxLength(M, prior, col) ==
    IF M = 1
    THEN [status |-> eslOK, max_length |-> 1]
    ELSE LET ml == IF col = 0 THEN prior ELSE col
         IN [status |-> IF ml >= LengthBound THEN eslERANGE ELSE eslOK,
             max_length |-> ml]

\* the columns at which the search of the estimator may stop
StopColumns == {0, 3, LengthBound}

BuildInit ==
    /\ hasProfile \in BOOLEAN
    /\ proflen \in 0..MaxLen
    /\ arch \in {"p7_ARCH_FAST", "p7_ARCH_HAND"}
    /\ effn \in {"p7_EFFN_NONE", "p7_EFFN_ENTROPY"}
    /\ abcType \in Alphabets
    /\ w_len \in WLens
    /\ w_betaZero \in BOOLEAN
    /\ use_priors \in BOOLEAN
    /\ bpc = "build_model"
    /\ bstatus = eslOK
    /\ hmm = NullHmm
    /\ ret_hmm = NullHmm
    /\ made = NotMade
    /\ stages = <<>>

\* the state of the pipeline variables in a run that does not follow it
BuildOff ==
    /\ hasProfile = FALSE
    /\ proflen = 0
    /\ arch = "p7_ARCH_FAST"
    /\ effn = "p7_EFFN_NONE"
    /\ abcType = "eslAMINO"
    /\ w_len = -1
    /\ w_betaZero = FALSE
    /\ use_priors = TRUE
    /\ bpc = "off"
    /\ bstatus = eslOK
    /\ hmm = NullHmm
    /\ ret_hmm = NullHmm
    /\ made = NotMade
    /\ stages = <<>>

\* one stage of profillic_p7_Builder: the call, then "goto ERROR" (lines
\* 539-544) unless it returned eslOK
Stage(name, statuses, nxt) ==
    /\ bpc = name
    /\ stages' = Append(stages, name)
    /\ \E st \in statuses :
         /\ bstatus' = st
         /\ IF st = eslOK
            THEN bpc' = nxt /\ hmm' = hmm
            ELSE bpc' = "failed" /\ hmm' = NullHmm
    /\ UNCHANGED <<hasProfile, proflen, arch, effn, abcType, w_len, w_betaZero,
                   use_priors, ret_hmm, made>>

\* line 507
BuildModel ==
    /\ bpc = "build_model"
    /\ stages' = Append(stages, "build_model")
    /\ \E r \in profillic_build_model :
         /\ bstatus' = r.status
         /\ made' = r.made
         /\ IF r.status = eslOK
            THEN bpc' = "effective_seqnumber" /\ hmm' = r.hmm
            ELSE bpc' = "failed" /\ hmm' = NullHmm
    /\ UNCHANGED <<hasProfile, proflen, arch, effn, abcType, w_len, w_betaZero,
                   use_priors, ret_hmm>>

\* lines 510-513 with hmm == NULL: the builder reads through a NULL pointer
NullModelUsed ==
    /\ bpc = "effective_seqnumber"
    /\ hmm.null
    /\ bpc' \in {"crashed", "parameterize"}
    /\ stages' = IF bpc' = "crashed" THEN stages
                 ELSE Append(stages, "effective_seqnumber")
    /\ UNCHANGED <<hasProfile, proflen, arch, effn, abcType, w_len, w_betaZero,
                   use_priors, bstatus, hmm, ret_hmm, made>>

\* lines 510-513
EffectiveSeqnumber ==
    /\ ~hmm.null
    /\ Stage("effective_seqnumber",
             IF effn = "p7_EFFN_ENTROPY" THEN {eslOK, eslEINVAL} ELSE {eslOK},
             "parameterize")

\* line 514
Parameterize ==
    Stage("parameterize", IF use_priors THEN {eslOK, eslEINVAL} ELSE {eslOK}, "annotate")

\* line 515
Annotate == Stage("annotate", {eslOK, eslEINVAL}, "calibrate")

\* line 516
Calibrate == Stage("calibrate", {eslOK, eslEINVAL}, "make_post_msa")

\* lines 517-524
MakePostMsa ==
    Stage("make_post_msa", {eslOK, eslEINVAL},
          IF RunsMaxLength THEN "max_length" ELSE "return")

\* lines 526-530, the call of the estimator
MaxLength ==
    /\ bpc = "max_length"
    /\ stages' = Append(stages, "max_length")
    /\ \E col \in StopColumns :
         LET r == profillic_p7_Builder_MaxLength(hmm.M, hmm.max_length, col)
         IN /\ bstatus' = r.status
            /\ IF r.status = eslOK
               THEN bpc' = "return" /\ hmm' = [hmm EXCEPT !.max_length = r.max_length]
               ELSE bpc' = "failed" /\ hmm' = NullHmm
    /\ UNCHANGED <<hasProfile, proflen, arch, effn, abcType, w_len, w_betaZero,
                   use_priors, ret_hmm, made>>

\* lines 526-537 without the estimator: max_length from the options, the
\* model handed to the caller
BuilderReturn ==
    /\ bpc = "return"
    /\ LET ml == IF abcType \in {"eslDNA", "eslRNA"} /\ w_len > 0 THEN w_len
                 ELSE IF abcType \in {"eslDNA", "eslRNA"} /\ w_betaZero THEN hmm.M * 4
                 ELSE hmm.max_length
       IN ret_hmm' = [hmm EXCEPT !.max_length = ml]
    /\ hmm' = ret_hmm'
    /\ bstatus' = eslOK
    /\ bpc' = "returned"
    /\ UNCHANGED <<hasProfile, proflen, arch, effn, abcType, w_len, w_betaZero,
                   use_priors, made, stages>>

\* profillic_serial_loop, lines 1224-1225: the model is written
SerialOutput ==
    /\ bpc = "returned"
    /\ stages' = Append(stages, "output_result")
    /\ \E ok \in BOOLEAN : bpc' = IF ok THEN "written" ELSE "fatal"
    /\ UNCHANGED <<hasProfile, proflen, arch, effn, abcType, w_len, w_betaZero,
                   use_priors, bstatus, hmm, ret_hmm, made>>

\* profillic_serial_loop, line 1213: p7_Fail("build failed")
SerialBuildFailed ==
    /\ bpc = "failed"
    /\ bpc' = "fatal"
    /\ UNCHANGED <<hasProfile, proflen, arch, effn, abcType, w_len, w_betaZero,
                   use_priors, bstatus, hmm, ret_hmm, made, stages>>

BuildNext ==
    \/ BuildModel /\ UNCHANGED <<poolVars, mpiVars, numVars>>
    \/ NullModelUsed /\ UNCHANGED <<poolVars, mpiVars, numVars>>
    \/ EffectiveSeqnumber /\ UNCHANGED <<poolVars, mpiVars, numVars>>
    \/ Parameterize /\ UNCHANGED <<poolVars, mpiVars, numVars>>
    \/ Annotate /\ UNCHANGED <<poolVars, mpiVars, numVars>>
    \/ Calibrate /\ UNCHANGED <<poolVars, mpiVars, numVars>>
    \/ MakePostMsa /\ UNCHANGED <<poolVars, mpiVars, numVars>>
    \/ MaxLength /\ UNCHANGED <<poolVars, mpiVars, numVars>>
    \/ BuilderReturn /\ UNCHANGED <<poolVars, mpiVars, numVars>>
    \/ SerialOutput /\ UNCHANGED <<poolVars, mpiVars, numVars>>
    \/ SerialBuildFailed /\ UNCHANGED <<poolVars, mpiVars, numVars>>

(***************************************************************************)
(* Arithmetic of the numerical stages.  The program computes in float and  *)
(* double; the model computes with exact fractions <<n, d>>, d > 0, kept   *)
(* in lowest terms, so that it shows what the formulas do and not what     *)
(* rounding does.                                                          *)
(***************************************************************************)
RECURSIVE GCD(_, _)
GCD(a, b) == IF b = 0 THEN a ELSE GCD(b, a % b)

Q(n, d) ==
    IF n = 0 THEN <<0, 1>>
    ELSE LET g == GCD(IF n < 0 THEN -n ELSE n, d) IN <<n \div g, d \div g>>

QZero == <<0, 1>>
QOne  == <<1, 1>>

QAdd(a, b) ==
    LET g == GCD(a[2], b[2])
    IN Q(a[1] * (b[2] \div g) + b[1] * (a[2] \div g), (a[2] \div g) * b[2])
QSub(a, b) == QAdd(a, <<-b[1], b[2]>>)
QMul(a, b) ==
    LET g1 == GCD(IF a[1] < 0 THEN -a[1] ELSE a[1], b[2])
        g2 == GCD(IF b[1] < 0 THEN -b[1] ELSE b[1], a[2])
    IN Q((a[1] \div g1) * (b[1] \div g2), (a[2] \div g2) * (b[2] \div g1))
\* a / b for b > 0
QDiv(a, b) == QMul(a, <<b[2], b[1]>>)
QLess(a, b) == a[1] * b[2] < b[1] * a[2]

(***************************************************************************)
(* profillic_p7_Builder_MaxLength: the dynamic program.  t[k], k in 1..m,  *)
(* is the transition row of node k, a record with the fields MM, MI, MD,   *)
(* IM, II, DM, DD.  A column is a sequence of m cells [M, I, D].           *)
(***************************************************************************)
\* lines 762-769: column 1, cells 1..k
RECURSIVE FirstColumn(_, _)
FirstColumn(k, t) ==
    IF k = 1 THEN <<[M |-> QOne, I |-> QZero, D |-> QZero]>>
    ELSE LET c == FirstColumn(k - 1, t)
         IN Append(c, [M |-> QZero, I |-> QZero,
                       D |-> IF k = 2 THEN t[1].MD
                             ELSE QMul(t[k - 1].DD, c[k - 1].D)])

\* lines 771-779: column 2, cells 1..k; c1 is column 1
RECURSIVE SecondColumn(_, _, _)
SecondColumn(k, t, c1) ==
    IF k = 1
    THEN <<[M |-> QZero, I |-> QMul(t[1].MI, c1[1].M), D |-> QZero]>>
    ELSE LET c == SecondColumn(k - 1, t, c1)
         IN IF k = 2
            THEN Append(c, [M |-> QMul(t[1].MM, c1[1].M), I |-> QZero, D |-> QZero])
            ELSE Append(c, [M |-> QMul(t[k - 1].DM, c1[k - 1].D),
                            I |-> QZero,
                            D |-> QAdd(QMul(t[k - 1].MD, c[k - 1].M),
                                       QMul(t[k - 1].DD, c[k - 1].D))])

\* lines 787-795: a column from 3 on, cells 1..k; prev is the column before
RECURSIVE NextColumn(_, _, _)
NextColumn(k, t, prev) ==
    IF k = 1
    THEN <<[M |-> QZero, I |-> QMul(t[1].II, prev[1].I), D |-> QZero]>>
    ELSE LET c == NextColumn(k - 1, t, prev)
         IN Append(c,
              [M |-> QAdd(QAdd(QMul(t[k - 1].MM, prev[k - 1].M),
                               QMul(t[k - 1].DM, prev[k - 1].D)),
                          QMul(t[k - 1].IM, prev[k - 1].I)),
               I |-> QAdd(QMul(t[k].MI, prev[k].M), QMul(t[k].II, prev[k].I)),
               D |-> QAdd(QMul(t[k - 1].MD, c[k - 1].M),
                          QMul(t[k - 1].DD, c[k - 1].D))])

\* lines 790, 797-801: what cells 2..k of a column add to surv
RECURSIVE SurvUpTo(_, _, _)
SurvUpTo(k, t, c) ==
    IF k = 1 THEN c[1].I
    ELSE QAdd(SurvUpTo(k - 1, t, c),
              QAdd(c[k].I,
                   QAdd(QMul(c[k].M, QSub(QOne, t[k].MD)),
                        QMul(c[k].D, QSub(QOne, t[k].DD)))))

\* lines 803-805: surv of a column before the division
Surv(m, t, c) ==
    QSub(QAdd(SurvUpTo(m, t, c),
              QAdd(QMul(c[m].M, t[m].MD), QMul(c[m].D, t[m].DD))),
         c[m].I)

\* line 781: p_sum after the first two columns
FirstPSum(m, c1, c2) == QAdd(QAdd(c1[m].M, c2[m].M), QAdd(c1[m].D, c2[m].D))

\* lines 808-811: surv /= surv + p_sum; if (surv < emit_thresh).  When
\* surv + p_sum is 0 the quotient is not a number and the test is false.
Stops(surv, p_sum, eps) ==
    LET tot == QAdd(surv, p_sum)
    IN tot # QZero /\ QLess(surv, QMul(eps, tot))

\* lines 785-815: the loop from column col on; the column at which it
\* breaks, 0 if it runs to length_bound.  When a column and p_sum repeat,
\* every later column repeats and the loop runs to length_bound.
RECURSIVE Search(_, _, _, _, _, _)
Search(col, m, t, eps, prev, p_sum) ==
    IF col > LengthBound THEN 0
    ELSE LET cur == NextColumn(m, t, prev)
             p   == QAdd(p_sum, QAdd(cur[m].M, cur[m].D))
         IN IF Stops(Surv(m, t, cur), p, eps) THEN col
            ELSE IF cur = prev /\ p = p_sum THEN 0
            ELSE Search(col + 1, m, t, eps, cur, p)

\* a variant whose loop begins at column 2
StopColumnFromSecond(m, t, eps) ==
    LET c1 == FirstColumn(m, t)
    IN Search(2, m, t, eps, c1, QAdd(c1[m].M, c1[m].D))

\* the column at which the estimator stops on a model of m >= 2 nodes
StopColumn(m, t, eps) ==
    LET c1 == FirstColumn(m, t)
        c2 == SecondColumn(m, t, c1)
    IN Search(3, m, t, eps, c2, FirstPSum(m, c1, c2))

(***************************************************************************)
(* The estimator applied to parameterized models.  A model has eHmm.M      *)
(* nodes; its rows are normalized, and the row of the last node follows    *)
(* the parameterizer (M->D is 0, the delete pair is {1, 0}).  The          *)
(* thresholds are values of bld->w_beta, which lies in (0, 1].             *)
(***************************************************************************)
QHalf == <<1, 2>>

MatchRows  == {<<QOne, QZero, QZero>>, <<QHalf, QHalf, QZero>>, <<QHalf, QZero, QHalf>>}
InsertRows == {<<QOne, QZero>>, <<QHalf, QHalf>>, <<QZero, QOne>>}
DeleteRows == {<<QOne, QZero>>, <<QHalf, QHalf>>}

Row(mt, it, dt) ==
    [MM |-> mt[1], MI |-> mt[2], MD |-> mt[3],
     IM |-> it[1], II |-> it[2], DM |-> dt[1], DD |-> dt[2]]

InnerRows == {Row(mt, it, dt) : mt \in MatchRows, it \in InsertRows, dt \in DeleteRows}
LastRows  == {r \in InnerRows : r.MD = QZero /\ r.DD = QZero}

\* the search ends on these models: either it stops, or a column repeats
Settles(t) ==
    ~ \E j, k \in DOMAIN t : t[j].II = QHalf /\ t[k].II = QOne

ParameterizedModels ==
    UNION {{t \in [1..m -> InnerRows] : t[m] \in LastRows /\ Settles(t)} : m \in 1..MaxNodes}

Thresholds == {<<1, 4>>, <<1, 2>>, <<3, 4>>}

EstInit ==
    /\ \E t \in ParameterizedModels :
          eHmm = [M |-> Len(t), t |-> t, max_length |-> NewHmm(Len(t)).max_length]
    /\ eRuns = <<>>

\* the state of the estimator variables in a run that does not follow them
EstOff ==
    /\ eHmm = [M |-> 0, t |-> <<>>, max_length |-> 0]
    /\ eRuns = <<>>

\* profillic_p7_Builder_MaxLength(hmm, eps) on eHmm; the thresholds of the
\* successive applications to one model increase
Estimate ==
    /\ Len(eRuns) < MaxRuns
    /\ \E eps \in Thresholds :
          /\ eRuns # <<>> => QLess(eRuns[Len(eRuns)].eps, eps)
          /\ LET dp  == eHmm.M # 1
                 col == IF dp THEN StopColumn(eHmm.M, eHmm.t, eps) ELSE 0
                 r   == profillic_p7_Builder_MaxLength(eHmm.M, eHmm.max_length, col)
             IN eRuns' = Append(eRuns, [eps |-> eps, dp |-> dp, col |-> col,
                                        status |-> r.status,
                                        max_length |-> r.max_length])
    /\ UNCHANGED eHmm

EstNext ==
    \/ Estimate /\ UNCHANGED <<poolVars, mpiVars, buildVars, parVars, moreVars>>

(***************************************************************************)
(* The count model on its way through effective_seqnumber and              *)
(* profillic_parameterize.  t[k], k in 0..M, is a row as above; mat[k] and *)
(* ins[k] are sequences of AbcK numbers.                                    *)
(***************************************************************************)
\* the largest power of two that divides the floats near n >= 0
RECURSIVE Ulp(_)
Ulp(n) == IF n <= FloatExact THEN 1 ELSE 2 * Ulp(n \div 2)

\* (float) n for an int n >= 0: the nearest number with a 24-bit mantissa,
\* ties to even
ToFloat(n) ==
    LET u == Ulp(n)
        q == n \div u
        r == n % u
    IN IF 2 * r < u THEN q * u
       ELSE IF 2 * r > u THEN (q + 1) * u
       ELSE IF q % 2 = 0 THEN q * u ELSE (q + 1) * u

RECURSIVE QSum(_)
QSum(v) == IF v = <<>> THEN QZero ELSE QAdd(v[1], QSum(Tail(v)))

\* esl_vec_FNorm: divide by the sum, or set every entry to 1/n when the sum
\* is 0
esl_vec_FNorm(v) ==
    LET sum == QSum(v)
    IN IF sum # QZero THEN [x \in DOMAIN v |-> QDiv(v[x], sum)]
       ELSE [x \in DOMAIN v |-> Q(1, Len(v))]

\* the posterior mean under a prior that adds one count to every entry
MeanPosterior(v) ==
    LET sum == QAdd(QSum(v), Q(Len(v), 1))
    IN [x \in DOMAIN v |-> QDiv(QAdd(v[x], QOne), sum)]

MatchOf(r)  == <<r.MM, r.MI, r.MD>>
InsertOf(r) == <<r.IM, r.II>>
DeleteOf(r) == <<r.DM, r.DD>>

OneHot == [x \in 1..AbcK |-> IF x = 1 THEN QOne ELSE QZero]

\* p7_hmm_Scale: every transition and emission count times scale
p7_hmm_Scale(h, scale) ==
    [h EXCEPT !.t   = [k \in 0..h.M |->
                          [f \in DOMAIN h.t[k] |-> QMul(h.t[k][f], scale)]],
              !.mat = [k \in 0..h.M |-> [x \in DOMAIN h.mat[k] |-> QMul(h.mat[k][x], scale)]],
              !.ins = [k \in 0..h.M |-> [x \in DOMAIN h.ins[k] |-> QMul(h.ins[k][x], scale)]]]

\* a variant that leaves the insert transitions as they are
NoPriorsSkipInserts(h) ==
    LET M == h.M
        Trow(k) ==
            LET r  == h.t[k]
                mt == IF k < M THEN esl_vec_FNorm(MatchOf(r))
                      ELSE esl_vec_FNorm(<<r.MM, r.MI, QZero>>)
                dt == IF k \in 1..(M - 1) THEN esl_vec_FNorm(DeleteOf(r))
                      ELSE <<QOne, QZero>>
            IN Row(mt, InsertOf(r), dt)
    IN [h EXCEPT !.t   = [k \in 0..M |-> Trow(k)],
                 !.mat = [k \in 0..M |-> IF k = 0 THEN OneHot
                                         ELSE esl_vec_FNorm(h.mat[k])],
                 !.ins = [k \in 0..M |-> esl_vec_FNorm(h.ins[k])]]

\* profillic_parameterize with priors disabled, lines 1348-1391
NoPriors(h) ==
    LET M == h.M
        Trow(k) ==
            LET r  == h.t[k]
                mt == IF k < M THEN esl_vec_FNorm(MatchOf(r))
                      ELSE esl_vec_FNorm(<<r.MM, r.MI, QZero>>)
                it == esl_vec_FNorm(InsertOf(r))
                dt == IF k \in 1..(M - 1) THEN esl_vec_FNorm(DeleteOf(r))
                      ELSE <<QOne, QZero>>
            IN Row(mt, it, dt)
    IN [h EXCEPT !.t   = [k \in 0..M |-> Trow(k)],
                 !.mat = [k \in 0..M |-> IF k = 0 THEN OneHot
                                         ELSE esl_vec_FNorm(h.mat[k])],
                 !.ins = [k \in 0..M |-> esl_vec_FNorm(h.ins[k])]]

\* p7_ParameterEstimation, called at line 1347: the posterior mean of every
\* group of counts, then the conventions of the boundary states
p7_ParameterEstimation(h) ==
    LET M == h.M
        Trow(k) ==
            LET r  == h.t[k]
                mp == MeanPosterior(MatchOf(r))
                mt == IF k < M THEN mp ELSE esl_vec_FNorm(<<mp[1], mp[2], QZero>>)
                it == MeanPosterior(InsertOf(r))
                dt == IF k \in 1..(M - 1) THEN MeanPosterior(DeleteOf(r))
                      ELSE <<QOne, QZero>>
            IN Row(mt, it, dt)
    IN [h EXCEPT !.t   = [k \in 0..M |-> Trow(k)],
                 !.mat = [k \in 0..M |-> IF k = 0 THEN OneHot
                                         ELSE MeanPosterior(h.mat[k])],
                 !.ins = [k \in 0..M |-> MeanPosterior(h.ins[k])]]

(***************************************************************************)
(* The models the two stages are applied to: the count models that         *)
(* profillic_p7_Profillicmodelmaker makes of a profile, and count models   *)
(* as the model makers make them of an alignment.                          *)
(***************************************************************************)
Uniform == [x \in 1..AbcK |-> Q(1, AbcK)]
Zeros   == [x \in 1..AbcK |-> QZero]
Counts  == [x \in 1..AbcK |-> Q(x, 1)]

Node(mt, it, dt, mat, ins) == [t |-> Row(mt, it, dt), mat |-> mat, ins |-> ins]

\* p7_hmm_Zero, line 943: what a node holds that is never written
ZeroNode == Node(<<QZero, QZero, QZero>>, <<QZero, QZero>>, <<QZero, QZero>>, Zeros, Zeros)

\* lines 950-1007: node 0 of a profile; its delete pair is not written
ProfileFirst ==
    {Node(mt, <<Q(1, 2), Q(1, 2)>>, <<QZero, QZero>>, OneHot, Uniform) :
        mt \in {<<Q(1, 2), Q(1, 4), Q(1, 4)>>, <<QOne, QZero, QZero>>}}

\* lines 1095-1139: a node from a profile position that is not the last
ProfileInner ==
    {Node(<<Q(1, 2), Q(1, 4), Q(1, 4)>>, <<Q(1, 2), Q(1, 2)>>, <<Q(1, 4), Q(3, 4)>>,
          Uniform, Uniform),
     Node(<<QOne, QZero, QZero>>, <<QOne, QZero>>, <<QOne, QZero>>, OneHot, OneHot)}

\* lines 1062-1093: the node from the last profile position, M - 1; M->D and
\* the delete pair are not written
ProfileLast ==
    {Node(<<Q(1, 2), Q(1, 2), QZero>>, <<Q(1, 2), Q(1, 2)>>, <<QZero, QZero>>,
          Uniform, Uniform),
     Node(<<QOne, QZero, QZero>>, <<QOne, QZero>>, <<QZero, QZero>>, OneHot, Uniform)}

\* the nodes 0..m that the converter fills from a profile of length m: the
\* loop at line 1011 ends at position m - 1, so node m stays zero
ProfileNodes(m) ==
    {n \in [0..m -> ProfileFirst \cup ProfileInner \cup ProfileLast \cup {ZeroNode}] :
        /\ n[0] \in ProfileFirst
        /\ n[m] = ZeroNode
        /\ \A k \in 1..(m - 1) :
              IF k = m - 1 THEN n[k] \in ProfileLast ELSE n[k] \in ProfileInner}

\* counts of an alignment
AlignedFirst ==
    {Node(<<Q(2, 1), Q(1, 1), Q(1, 1)>>, <<QZero, QZero>>, <<QZero, QZero>>, Zeros, Zeros),
     Node(<<Q(1, 1), Q(2, 1), QZero>>, <<Q(1, 1), Q(3, 1)>>, <<QZero, QZero>>, Zeros, Counts)}
AlignedInner ==
    {Node(<<Q(2, 1), Q(1, 1), Q(1, 1)>>, <<QZero, QZero>>, <<QZero, Q(3, 1)>>, Counts, Zeros),
     Node(<<Q(3, 1), QZero, QZero>>, <<Q(1, 1), Q(1, 1)>>, <<QZero, QZero>>, OneHot, Counts)}
AlignedLast ==
    {Node(<<Q(2, 1), Q(1, 1), QZero>>, <<Q(1, 1), Q(1, 1)>>, <<Q(1, 1), QZero>>, Counts, OneHot),
     Node(<<Q(3, 1), QZero, QZero>>, <<QZero, QZero>>, <<QZero, QZero>>, Counts, Zeros)}

AlignedNodes(m) ==
    {n \in [0..m -> AlignedFirst \cup AlignedInner \cup AlignedLast] :
        /\ n[0] \in AlignedFirst
        /\ n[m] \in AlignedLast
        /\ \A k \in 1..(m - 1) : n[k] \in AlignedInner}

\* msa->nseq, 1143 and 1296; the last one is the first int that float
\* cannot hold
SeqCounts == {1, 2, FloatExact + 1}

\* bld->eset
ESets == {1, 2}

\* a model of m match states with the nodes n, nseq and eff_nseq set as at
\* lines 1143-1144
HmmOf(m, n, ns) ==
    [M |-> m, t |-> [k \in 0..m |-> n[k].t], mat |-> [k \in 0..m |-> n[k].mat],
     ins |-> [k \in 0..m |-> n[k].ins], nseq |-> ns, eff_nseq |-> ToFloat(ns)]

\* line 1162 scales the counts made of a profile by nseq
CountModels ==
    UNION {{p7_hmm_Scale(HmmOf(m, n, ns), Q(ns, 1)) : n \in ProfileNodes(m), ns \in SeqCounts}
           \cup {HmmOf(m, n, ns) : n \in AlignedNodes(m), ns \in SeqCounts} :
           m \in 1..MaxStates}

NoModel == [M |-> 0, t |-> <<>>, mat |-> <<>>, ins |-> <<>>, nseq |-> 0, eff_nseq |-> 0]

ParInit ==
    /\ pHmm \in CountModels
    /\ pPrev = NoModel
    /\ pOps = <<>>

\* the state of these variables in a run that does not follow them
ParOff ==
    /\ pHmm = NoModel
    /\ pPrev = NoModel
    /\ pOps = <<>>

\* effective_seqnumber with p7_EFFN_NONE, lines 1296 and 1324
EffnNone ==
    /\ pOps = <<>>
    /\ LET eff == ToFloat(pHmm.nseq)
       IN pHmm' = [p7_hmm_Scale(pHmm, Q(eff, pHmm.nseq)) EXCEPT !.eff_nseq = eff]
    /\ pPrev' = pHmm
    /\ pOps' = <<"p7_EFFN_NONE">>

\* effective_seqnumber with p7_EFFN_SET, lines 1297 and 1324
EffnSet ==
    /\ pOps = <<>>
    /\ \E eset \in ESets :
          pHmm' = [p7_hmm_Scale(pHmm, Q(eset, pHmm.nseq)) EXCEPT !.eff_nseq = eset]
    /\ pPrev' = pHmm
    /\ pOps' = <<"p7_EFFN_SET">>

\* profillic_parameterize(bld, hmm, FALSE); applied a second time to see
\* what it does to its own result
ParameterizeNoPriors ==
    /\ Len(pOps) \in 1..2
    /\ pHmm' = NoPriors(pHmm)
    /\ pPrev' = pHmm
    /\ pOps' = Append(pOps, "no priors")

\* profillic_parameterize(bld, hmm, TRUE)
ParameterizeWithPriors ==
    /\ Len(pOps) \in 1..2
    /\ pHmm' = p7_ParameterEstimation(pHmm)
    /\ pPrev' = pHmm
    /\ pOps' = Append(pOps, "priors")

ParNext ==
    \/ EffnNone /\ UNCHANGED <<poolVars, mpiVars, buildVars, estVars, moreVars>>
    \/ EffnSet /\ UNCHANGED <<poolVars, mpiVars, buildVars, estVars, moreVars>>
    \/ ParameterizeNoPriors /\ UNCHANGED <<poolVars, mpiVars, buildVars, estVars, moreVars>>
    \/ ParameterizeWithPriors /\ UNCHANGED <<poolVars, mpiVars, buildVars, estVars, moreVars>>

(***************************************************************************)
(* profillic_p7_Profillicmodelmaker: a profile of L positions becomes a    *)
(* count model of M = L match states.  A profile position holds the        *)
(* distributions the converter reads from it; a value travels through      *)
(* toDouble() and into a float unchanged, since the profile holds floats.  *)
(* Residues are 1..K here (0..K-1 in the code).                            *)
(***************************************************************************)
\* esl_abc_DigitizeSymbol over the residues of the profile: one code each
Digitizations(K) ==
    {d \in [1..K -> 1..K] : \A a, b \in 1..K : d[a] = d[b] => a = b}

\* the sum 1 + ... + K
Triangle(K) == (K * (K + 1)) \div 2

\* the positions the profiles are made of
PositionKinds(K) ==
    {[Match             |-> [toMatch |-> Q(1, 2), toInsertion |-> Q(1, 3),
                             toDeletion |-> Q(1, 6)],
      Insertion         |-> [toMatch |-> Q(3, 4), toInsertion |-> Q(1, 4)],
      Deletion          |-> [toMatch |-> Q(2, 5), toDeletion |-> Q(3, 5)],
      PreAlign          |-> [toPreAlign |-> Q(1, 5), toBegin |-> Q(4, 5)],
      PostAlign         |-> [toPostAlign |-> Q(1, 7), toTerminal |-> Q(6, 7)],
      MatchEmission     |-> [r \in 1..K |-> Q(r, Triangle(K))],
      InsertionEmission |-> [r \in 1..K |-> Q(K + 1 - r, Triangle(K))]],
     [Match             |-> [toMatch |-> QOne, toInsertion |-> QZero,
                             toDeletion |-> QZero],
      Insertion         |-> [toMatch |-> QOne, toInsertion |-> QZero],
      Deletion          |-> [toMatch |-> QOne, toDeletion |-> QZero],
      PreAlign          |-> [toPreAlign |-> QZero, toBegin |-> QOne],
      PostAlign         |-> [toPostAlign |-> Q(1, 2), toTerminal |-> Q(1, 2)],
      MatchEmission     |-> [r \in 1..K |-> IF r = K THEN QOne ELSE QZero],
      InsertionEmission |-> [r \in 1..K |-> Q(1, K)]]}

\* the profiles of up to MaxPos positions
Profiles(K) ==
    UNION {{[length |-> L, pos |-> f] : f \in [0..(L - 1) -> PositionKinds(K)]} :
           L \in 0..MaxPos}

ZeroRow == Row(<<QZero, QZero, QZero>>, <<QZero, QZero>>, <<QZero, QZero>>)

\* p7_hmm_Create and p7_hmm_Zero, lines 942-943
p7_hmm_Zero(M, K) ==
    [M |-> M,
     t   |-> [k \in 0..M |-> ZeroRow],
     mat |-> [k \in 0..M |-> [x \in 1..K |-> QZero]],
     ins |-> [k \in 0..M |-> [x \in 1..K |-> QZero]],
     nseq |-> 0, eff_nseq |-> 0]

\* an emission row of the profile under the codes of the alphabet:
\* hmm->...[ hmmer_digitized_residue ] = profile[ ... ][ res_i ]
Digitized(v, d) == [x \in DOMAIN v |-> v[CHOOSE r \in DOMAIN v : d[r] = x]]

\* a variant in which the body of the loop at 979 never runs
SpecialCasesSkipped(row, p0, n) == row

\* lines 979-1009: the loop over the residues 1..K-1 that clears mat[0]
\* also holds the special cases of t[0]; n turns are left
RECURSIVE SpecialCases(_, _, _)
SpecialCases(row, p0, n) ==
    IF n = 0 THEN row
    ELSE SpecialCases([row EXCEPT !.II = p0.PreAlign.toPreAlign,
                                  !.IM = p0.PreAlign.toBegin,
                                  !.MI = p0.Match.toInsertion,
                                  !.MM = p0.Match.toMatch,
                                  !.MD = p0.Match.toDeletion],
                      p0, n - 1)

\* lines 950-960, then the loop at 979: t[0]
FirstTransitions(p0, K) ==
    LET mi == p0.Insertion.toInsertion
    IN SpecialCases([ZeroRow EXCEPT !.MI = mi, !.II = mi, !.IM = QSub(QOne, mi)],
                    p0, K - 1)

\* lines 1096-1139: t[pos_i] of a position that is not the last
InnerTransitions(p) ==
    Row(<<p.Match.toMatch, p.Match.toInsertion, p.Match.toDeletion>>,
        <<p.Insertion.toMatch, p.Insertion.toInsertion>>,
        <<p.Deletion.toMatch, p.Deletion.toDeletion>>)

\* a variant that treats the last position as any other
LastAsInner(p) == InnerTransitions(p)

\* lines 1062-1093: t[pos_i] of the last position
LastTransitions(p) ==
    [ZeroRow EXCEPT !.IM = p.PostAlign.toTerminal,
                    !.II = p.PostAlign.toPostAlign,
                    !.MM = p.PostAlign.toTerminal,
                    !.MI = p.PostAlign.toPostAlign]

\* a variant that writes position pos_i to state pos_i + 1
StateOfNext(pos_i) == pos_i + 1

\* the state that position pos_i of the loop at 1011 is written to:
\* hmm->t[ pos_i /*+ 1*/ ]
StateOf(pos_i) == pos_i

\* lines 942-1141: the zeroed model with state 0 and the states of the
\* positions 1..L-1 filled in
FilledModel(profile, K, d) ==
    LET L == profile.length
        z == p7_hmm_Zero(L, K)
        From(k) == {pos_i \in 1..(L - 1) : StateOf(pos_i) = k}
        Pos(k) == profile.pos[CHOOSE pos_i \in From(k) : TRUE]
        IsLast(k) == (CHOOSE pos_i \in From(k) : TRUE) = L - 1
    IN [z EXCEPT
          !.t   = [k \in 0..L |->
                     IF k = 0 THEN FirstTransitions(profile.pos[0], K)
                     ELSE IF From(k) = {} THEN z.t[k]
                     ELSE IF IsLast(k) THEN LastTransitions(Pos(k))
                     ELSE InnerTransitions(Pos(k))],
          !.mat = [k \in 0..L |->
                     IF k = 0 THEN [x \in 1..K |-> IF x = 1 THEN QOne ELSE QZero]
                     ELSE IF From(k) = {} THEN z.mat[k]
                     ELSE Digitized(Pos(k).MatchEmission, d)],
          !.ins = [k \in 0..L |->
                     IF k = 0 THEN Digitized(profile.pos[0].InsertionEmission, d)
                     ELSE IF From(k) = {} THEN z.ins[k]
                     ELSE Digitized(Pos(k).InsertionEmission, d)]]

ConvInit ==
    /\ cvK \in 2..MaxAbc
    /\ cvProfile \in Profiles(cvK)
    /\ cvDigitize \in Digitizations(cvK)
    /\ cvNseq \in SeqCounts
    /\ cvpc = "start"
    /\ cvStatus = eslOK
    /\ cvHmm = NoModel

\* the state of the converter variables in a run that does not follow them
ConvOff ==
    /\ cvK = 2
    /\ cvProfile = [length |-> 0, pos |-> <<>>]
    /\ cvDigitize = <<1, 2>>
    /\ cvNseq = 1
    /\ cvpc = "off"
    /\ cvStatus = eslOK
    /\ cvHmm = NoModel

\* lines 927-928 and 1167-1170: a profile of no position
ConvertNothing ==
    /\ cvpc = "start"
    /\ cvProfile.length = 0
    /\ cvStatus' = eslENORESULT
    /\ cvHmm' = NoModel
    /\ cvpc' = "failed"
    /\ UNCHANGED <<cvK, cvProfile, cvDigitize, cvNseq>>

\* lines 927-1144: the counts are filled in, nseq and eff_nseq are set
ConvertCounts ==
    /\ cvpc = "start"
    /\ cvProfile.length # 0
    /\ cvHmm' = [FilledModel(cvProfile, cvK, cvDigitize)
                    EXCEPT !.nseq = cvNseq, !.eff_nseq = ToFloat(cvNseq)]
    /\ cvpc' = "filled"
    /\ UNCHANGED <<cvK, cvProfile, cvDigitize, cvNseq, cvStatus>>

\* lines 1146-1165: p7_hmm_Scale(hmm, hmm->nseq), then the return
ConvertScale ==
    /\ cvpc = "filled"
    /\ cvHmm' = p7_hmm_Scale(cvHmm, Q(cvHmm.nseq, 1))
    /\ cvpc' = "returned"
    /\ UNCHANGED <<cvK, cvProfile, cvDigitize, cvNseq, cvStatus>>

ConvNext ==
    \/ ConvertNothing /\ UNCHANGED <<poolVars, mpiVars, buildVars, estVars, parVars, runVars>>
    \/ ConvertCounts /\ UNCHANGED <<poolVars, mpiVars, buildVars, estVars, parVars, runVars>>
    \/ ConvertScale /\ UNCHANGED <<poolVars, mpiVars, buildVars, estVars, parVars, runVars>>

(***************************************************************************)
(* profillic_usual_master, lines 766-788: the loop the input goes to, and  *)
(* the two loops as far as reading, publishing and building go.            *)
(***************************************************************************)
eslMSAFILE_UNKNOWN   == "eslMSAFILE_UNKNOWN"
eslMSAFILE_PROFILLIC == "eslMSAFILE_PROFILLIC"
eslMSAFILE_STOCKHOLM == "eslMSAFILE_STOCKHOLM"

\* cfg->fmt, lines 555 and 573-579
Formats == {eslMSAFILE_UNKNOWN, eslMSAFILE_PROFILLIC, eslMSAFILE_STOCKHOLM}

\* the format of the open file: the one asked for, or the one guessed
OpenFormats(fmt) ==
    IF fmt = eslMSAFILE_UNKNOWN THEN {eslMSAFILE_PROFILLIC, eslMSAFILE_STOCKHOLM}
    ELSE {fmt}

\* a variant that looks at the number of threads only
UsesThreadsAnyFormat(format, n) == n > 0

\* line 767: the input goes to thread_loop
UsesThreads(format, n) == format # eslMSAFILE_PROFILLIC /\ n > 0

\* line 1204, the left operand of the loop test
ReadsAgain(format, n) == IF format = eslMSAFILE_PROFILLIC THEN n = 0 ELSE TRUE

\* what is read from a file of this format
InputOf(format) == IF format = eslMSAFILE_PROFILLIC THEN "profile" ELSE "alignment"

RunInit ==
    /\ runFmt \in Formats
    /\ runFormat \in OpenFormats(runFmt)
    /\ runCpus \in 0..MaxCpus
    /\ runFile \in 0..MaxAli
    /\ runpc = "usual_master"
    /\ runProfile = FALSE
    /\ runNali = 0
    /\ runQueue = <<>>
    /\ runBuilds = <<>>

\* the state of these variables in a run that does not follow them
RunOff ==
    /\ runFmt = eslMSAFILE_UNKNOWN
    /\ runFormat = eslMSAFILE_STOCKHOLM
    /\ runCpus = 0
    /\ runFile = 0
    /\ runpc = "off"
    /\ runProfile = FALSE
    /\ runNali = 0
    /\ runQueue = <<>>
    /\ runBuilds = <<>>

\* lines 767-788: thread_loop, or the serial loop with or without a profile
ChooseLoop ==
    /\ runpc = "usual_master"
    /\ IF UsesThreads(runFormat, runCpus)
       THEN runpc' = "thread_loop" /\ runProfile' = FALSE
       ELSE runpc' = "serial_loop" /\ runProfile' = (runFmt = eslMSAFILE_PROFILLIC)
    /\ UNCHANGED <<runFmt, runFormat, runCpus, runFile, runNali, runQueue, runBuilds>>

\* lines 1204-1237: one turn of the serial loop
SerialTurn ==
    /\ runpc = "serial_loop"
    /\ ReadsAgain(runFormat, runNali) /\ runNali < runFile
    /\ runNali' = runNali + 1
    /\ runBuilds' = Append(runBuilds, [by |-> "serial", nali |-> runNali + 1,
                                       input |-> InputOf(runFormat),
                                       profile_ptr |-> runProfile])
    /\ UNCHANGED <<runFmt, runFormat, runCpus, runFile, runpc, runProfile, runQueue>>

\* line 1204: the loop test fails
SerialEnd ==
    /\ runpc = "serial_loop"
    /\ ~(ReadsAgain(runFormat, runNali) /\ runNali < runFile)
    /\ runpc' = "done"
    /\ UNCHANGED <<runFmt, runFormat, runCpus, runFile, runProfile, runNali,
                   runQueue, runBuilds>>

\* lines 1272-1283: thread_loop reads an input and publishes it
ThreadPublish ==
    /\ runpc = "thread_loop"
    /\ runNali < runFile
    /\ Len(runQueue) < SlotsPerCpu * runCpus
    /\ runNali' = runNali + 1
    /\ runQueue' = Append(runQueue, [nali |-> runNali + 1, input |-> InputOf(runFormat)])
    /\ UNCHANGED <<runFmt, runFormat, runCpus, runFile, runpc, runProfile, runBuilds>>

\* lines 1408-1414: a worker builds the input at the head of the queue,
\* with a NULL profile
ThreadBuild ==
    /\ runpc = "thread_loop"
    /\ runQueue # <<>>
    /\ runQueue' = Tail(runQueue)
    /\ runBuilds' = Append(runBuilds, [by |-> "worker", nali |-> Head(runQueue).nali,
                                       input |-> Head(runQueue).input,
                                       profile_ptr |-> FALSE])
    /\ UNCHANGED <<runFmt, runFormat, runCpus, runFile, runpc, runProfile, runNali>>

\* lines 1277 and 1362-1379: end of data and every result collected
ThreadEnd ==
    /\ runpc = "thread_loop"
    /\ runNali = runFile /\ runQueue = <<>>
    /\ runpc' = "done"
    /\ UNCHANGED <<runFmt, runFormat, runCpus, runFile, runProfile, runNali,
                   runQueue, runBuilds>>

RunNext ==
    \/ ChooseLoop /\ UNCHANGED <<poolVars, mpiVars, buildVars, estVars, parVars, convVars>>
    \/ SerialTurn /\ UNCHANGED <<poolVars, mpiVars, buildVars, estVars, parVars, convVars>>
    \/ SerialEnd /\ UNCHANGED <<poolVars, mpiVars, buildVars, estVars, parVars, convVars>>
    \/ ThreadPublish /\ UNCHANGED <<poolVars, mpiVars, buildVars, estVars, parVars, convVars>>
    \/ ThreadBuild /\ UNCHANGED <<poolVars, mpiVars, buildVars, estVars, parVars, convVars>>
    \/ ThreadEnd /\ UNCHANGED <<poolVars, mpiVars, buildVars, estVars, parVars, convVars>>

(***************************************************************************)
(* Claims about the distributed run.                                       *)
(***************************************************************************)
\* the master has left mpi_master, by return or by a fatal exit
MasterEnded == mpc \in {"returned", "failed", "readfailure"}

\* the indices the master has sent to a worker
Dispatched == {i \in 1..mnali : i # mmsa}

\* how many results of index i the master wrote or recorded as failed
Outcomes(i) ==
    Cardinality({k \in 1..Len(mout) : mout[k].idx = i})
      + (IF i \in reported THEN 1 ELSE 0)

\* C5: an alignment is sent only to a rank that is a worker and holds no
\* alignment; no two workers hold the same index; nproc_working is the
\* number of workers that hold an alignment.
C5_DispatchToIdle ==
    /\ ~badSend
    /\ \A v, w \in Workers : msaidx[v] # 0 /\ msaidx[v] = msaidx[w] => v = w
    /\ nproc_working = Cardinality({w \in Workers : msalist[w] # NULL})

\* C5 witness: both workers of a three-process run hold an alignment, one
\* of them its second.
C5_Witness ==
    /\ nproc = 3 /\ nproc_working = 2
    /\ \E w \in Workers : msaidx[w] = 3

\* C6 as stated: when the master ends, every index it dispatched has
\* exactly one result, written as a model or recorded as an error.
C6_EveryIndexHasOutcome ==
    MasterEnded => \A i \in Dispatched : Outcomes(i) = 1

\* C6 amended: no index has more than one result written or recorded; a
\* dispatched index whose result reaches the master while its status is OK
\* has exactly one once the master ends; one whose result arrives after
\* the status has become non-OK is dropped and has none.
C6_OutcomeUnlessLate ==
    /\ \A i \in 1..MaxAli : Outcomes(i) <= 1
    /\ \A i \in late : Outcomes(i) = 0
    /\ MasterEnded => \A i \in Dispatched : i \notin late => Outcomes(i) = 1

\* C6 witness: the master has ended, one result was written and a later
\* one was dropped.
C6_Witness ==
    /\ MasterEnded /\ late # {} /\ mout # <<>>

\* C7: once the status is not OK it stays so, the error message is not
\* overwritten and no further result is written or recorded.
C7_FirstErrorOnly ==
    [][xstatus # eslOK =>
          /\ xstatus' # eslOK
          /\ errmsg' = errmsg
          /\ mout' = mout
          /\ reported' = reported]_vars

\* C7 witness: a worker's error is stored and the result of another
\* worker has arrived after it.
C7_Witness ==
    /\ errmsg.src = "worker" /\ late # {}

\* the master waits in MPI_Probe, no message is on its way, and nobody is
\* left to send one: every worker has returned or waits for the master
MasterHung ==
    /\ mpc = "probe"
    /\ \A w \in Workers : result[w].st = "none" /\ (mwpc[w] = "exited" \/ inbox[w] = <<>>)
    /\ \E w \in Workers : msalist[w] # NULL /\ mwpc[w] = "exited"

\* C8: after a worker's error the master never waits for a result from a
\* worker that has left its receive loop.
C8_NeverWaitsForExitedWorker == ~MasterHung

(***************************************************************************)
(* The specifications.                                                     *)
(***************************************************************************)
PoolStart == PoolInit /\ MpiOff /\ BuildOff /\ EstOff /\ ParOff /\ ConvOff /\ RunOff

PoolSpec == PoolStart /\ [][PoolNext]_vars

MpiStart == MpiInit /\ PoolOff /\ BuildOff /\ EstOff /\ ParOff /\ ConvOff /\ RunOff

MpiSpec == MpiStart /\ [][MpiNext]_vars

BuildStart == BuildInit /\ PoolOff /\ MpiOff /\ EstOff /\ ParOff /\ ConvOff /\ RunOff

BuildSpec == BuildStart /\ [][BuildNext]_vars

EstStart == EstInit /\ PoolOff /\ MpiOff /\ BuildOff /\ ParOff /\ ConvOff /\ RunOff

EstSpec == EstStart /\ [][EstNext]_vars

ParStart == ParInit /\ PoolOff /\ MpiOff /\ BuildOff /\ EstOff /\ ConvOff /\ RunOff

ParSpec == ParStart /\ [][ParNext]_vars

ConvStart == ConvInit /\ PoolOff /\ MpiOff /\ BuildOff /\ EstOff /\ ParOff /\ RunOff

ConvSpec == ConvStart /\ [][ConvNext]_vars

RunStart == RunInit /\ PoolOff /\ MpiOff /\ BuildOff /\ EstOff /\ ParOff /\ ConvOff

RunSpec == RunStart /\ [][RunNext]_vars

(***************************************************************************)
(* Claims about the thread pool.                                           *)
(***************************************************************************)
\* the loop of thread_loop has exited normally (top was empty)
LoopExited == rpc \in {"join", "done"}

\* how many output_result calls carried alignment i
Emitted(i) == Cardinality({k \in 1..Len(out) : out[k].msa = i})

\* C1: the indices passed to output_result are 1, 2, ... in this order at
\* every moment, and once the reader's loop has exited they are exactly
\* 1..N, N the number of alignments read.
C1_OutputInOrder ==
    /\ \A k \in 1..Len(out) : out[k].nali = k
    /\ LoopExited => Len(out) = nali /\ nali = nsrc

\* C1 witness: the first alignment has been emitted and the result of the
\* third, which arrived ahead of the second, waits in the pending list.
C1_Witness ==
    /\ Len(out) = 1 /\ top # <<>> /\ top[1].nali = 3

\* C2: an alignment goes through the pipeline at most once and is emitted
\* at most once, always with the HMM built from it; once the reader's loop
\* has exited every alignment read was built exactly once and emitted
\* exactly once.
C2_ExactlyOnce ==
    /\ \A i \in 1..MaxAli : built[i] <= 1 /\ Emitted(i) <= 1
    /\ \A k \in 1..Len(out) : out[k].hmm = out[k].msa /\ out[k].msa = out[k].nali
    /\ LoopExited => \A i \in 1..nali : built[i] = 1 /\ Emitted(i) = 1

\* C2 witness: a finished run in which two workers each built an alignment.
C2_Witness ==
    /\ rpc = "done" /\ ncpus = 2 /\ nali >= 2
    /\ \A i \in 1..nali : built[i] = 1 /\ Emitted(i) = 1

\* the reader is in esl_threads_WaitForFinish, nothing is left in the worker
\* queue, and a worker is still waiting for an item: nobody will ever
\* publish one.
WorkerStranded ==
    /\ Running
    /\ rpc = "join"
    /\ wq = <<>>
    /\ \E w \in Cpus : wpc[w] = "wait"
    /\ \A w \in Cpus : wpc[w] \in {"wait", "finished"}

\* C3: after end-of-data the reader's loop exits, every worker dequeues an
\* item without alignment and finishes, and thread_loop returns: no worker
\* stays blocked on an empty worker queue while the reader waits for it.
C3_NoWorkerStranded == ~WorkerStranded

\* C4: when the reader's loop exits the pending list is empty: the
\* "Top is not empty" failure is never reached.
C4_TopEmptyAtExit ==
    /\ fatal # "top"
    /\ LoopExited => top = <<>>

\* C4 witness: the loop has exited after the pending list had been in use
\* (three alignments, two workers, all emitted).
C4_Witness ==
    /\ rpc = "join" /\ nali = MaxAli /\ processed = nali /\ ncpus = 2 /\ top = <<>>

(***************************************************************************)
(* Claims about the build pipeline.                                        *)
(***************************************************************************)
\* the positions of stage s in the record of the stages run
At(s) == {k \in 1..Len(stages) : stages[k] = s}

\* the order of the stages of a complete build, with and without the call
\* of the max-length estimator
FullOrder ==
    <<"build_model", "effective_seqnumber", "parameterize", "annotate",
      "calibrate", "make_post_msa", "max_length", "output_result">>

OrderWithoutMaxLength ==
    <<"build_model", "effective_seqnumber", "parameterize", "annotate",
      "calibrate", "make_post_msa", "output_result">>

IsPrefix(s, t) == Len(s) <= Len(t) /\ s = SubSeq(t, 1, Len(s))

\* C9 as stated: the max-length estimator runs before the calibration
\* routine, so no calibration is followed by a max-length estimation.
C9_MaxLengthBeforeCalibrate ==
    \A i \in At("calibrate") : \A j \in At("max_length") : j < i

\* C9 amended: the stages run in the order model construction, reweighting,
\* parameterization, annotation, calibration, post-alignment, max-length
\* estimation, writing; the estimator runs after the calibration, and only
\* for a DNA or RNA alphabet with no window length given and a non-zero
\* w_beta; the model is written after all of them.
C9_StageOrder ==
    /\ IsPrefix(stages, FullOrder) \/ IsPrefix(stages, OrderWithoutMaxLength)
    /\ At("max_length") # {} =>
          abcType \in {"eslDNA", "eslRNA"} /\ w_len <= 0 /\ ~w_betaZero

\* C9 witness: a model was written after the estimator had run.
C9_Witness ==
    /\ bpc = "written" /\ stages = FullOrder

\* C10: given a profile of length L >= 1 the converter returns eslOK and a
\* model with M = L; given L = 0 it returns eslENORESULT and no model.
C10_ConverterResult ==
    hasProfile /\ bpc # "build_model" =>
        IF proflen = 0
        THEN made.status = eslENORESULT /\ made.hmm.null
        ELSE made.status = eslOK /\ ~made.hmm.null /\ made.hmm.M = proflen

\* C10 witness: the converter was given a profile of length 1 and returned
\* a model of one node.
C10_Witness ==
    /\ hasProfile /\ proflen = 1 /\ made.status = eslOK /\ made.hmm.M = 1

\* C11: when a stage fails no later stage runs, the builder returns the
\* status of that stage and hands no model to its caller: a failure of the
\* converter ends the build right after model construction, and a build
\* that has gone past a failed stage does not exist.
C11_FailureEndsBuild ==
    /\ made.status \notin {"none", eslOK} =>
          /\ bpc \in {"failed", "fatal"}
          /\ bstatus = made.status
          /\ stages = <<"build_model">>
    /\ bstatus # eslOK => bpc \in {"failed", "fatal"} /\ ret_hmm.null


(***************************************************************************)
(* Claims about the max-length estimator.                                  *)
(***************************************************************************)
\* C12: on a model of one node the estimator sets max_length to 1 and
\* returns success, for every threshold, without running the dynamic
\* program.
C12_SingleNodeIsOne ==
    eHmm.M = 1 =>
        \A i \in DOMAIN eRuns :
            /\ eRuns[i].status = eslOK
            /\ eRuns[i].max_length = 1
            /\ ~eRuns[i].dp

\* a model of one node has been estimated with two thresholds
C12_Witness == eHmm.M = 1 /\ Len(eRuns) = 2

\* C13: on a model of two or more nodes the estimator returns RangeExceeded
\* exactly when the stop condition is met at no column within the cap.
C13_RangeExceededIffNoStop ==
    eHmm.M >= 2 =>
        \A i \in DOMAIN eRuns :
            eRuns[i].status = eslERANGE <=> eRuns[i].col = 0

\* column w of the table, with p_sum through that column
RECURSIVE ColumnAt(_, _, _)
ColumnAt(w, m, t) ==
    IF w = 1
    THEN LET c1 == FirstColumn(m, t) IN [c |-> c1, p |-> QAdd(c1[m].M, c1[m].D)]
    ELSE IF w = 2
    THEN LET c1 == FirstColumn(m, t)
             c2 == SecondColumn(m, t, c1)
         IN [c |-> c2, p |-> FirstPSum(m, c1, c2)]
    ELSE LET b == ColumnAt(w - 1, m, t)
             c == NextColumn(m, t, b.c)
         IN [c |-> c, p |-> QAdd(b.p, QAdd(c[m].M, c[m].D))]

\* the ratio surv / (surv + p_sum) at length w is at most eps; in columns 1
\* and 2 the first match state holds mass as well
RatioAtMost(w, m, t, eps) ==
    LET a    == ColumnAt(w, m, t)
        surv == QAdd(Surv(m, t, a.c), QMul(a.c[1].M, QSub(QOne, t[1].MD)))
        tot  == QAdd(surv, a.p)
    IN tot # QZero /\ ~QLess(QMul(eps, tot), surv)

\* C14: the stored max_length is the smallest length whose ratio is at most
\* the threshold: whenever a length up to MaxWidth has such a ratio, the
\* stored value is the least of them, lengths 1 and 2 and a ratio equal to
\* the threshold included.
C14_SmallestLengthAtOrBelow ==
    eHmm.M >= 2 =>
        \A i \in DOMAIN eRuns :
            \A w \in 1..MaxWidth :
                (/\ RatioAtMost(w, eHmm.M, eHmm.t, eRuns[i].eps)
                 /\ \A v \in 1..(w - 1) : ~RatioAtMost(v, eHmm.M, eHmm.t, eRuns[i].eps))
                => eRuns[i].max_length = w

\* C15: for the same model and the same max_length before the call, the
\* smaller of two thresholds never leaves the smaller max_length.
C15_MonotoneInThreshold ==
    \A i, j \in DOMAIN eRuns :
        QLess(eRuns[i].eps, eRuns[j].eps) =>
            ~(eRuns[i].max_length < eRuns[j].max_length)

(***************************************************************************)
(* Claims about the parameterizer and the reweighter.                      *)
(***************************************************************************)
\* the last operation applied to the model
LastOp == IF pOps = <<>> THEN "none" ELSE pOps[Len(pOps)]

\* every transition group and every emission row of every state sums to 1
Normalized(h) ==
    \A k \in 0..h.M :
        /\ QSum(MatchOf(h.t[k])) = QOne
        /\ QSum(InsertOf(h.t[k])) = QOne
        /\ QSum(DeleteOf(h.t[k])) = QOne
        /\ QSum(h.mat[k]) = QOne
        /\ QSum(h.ins[k]) = QOne

SameProbabilities(g, h) == g.t = h.t /\ g.mat = h.mat /\ g.ins = h.ins

\* C16: after parameterization, with priors or without, the match triple,
\* the insert pair, the delete pair and the match and insert emission rows
\* of every state 0..M sum to 1.
C16_RowsSumToOne ==
    LastOp \in {"no priors", "priors"} => Normalized(pHmm)

\* a model of two or more match states whose last node held no counts has
\* been parameterized without priors
C16_Witness ==
    /\ LastOp = "no priors"
    /\ Len(pOps) = 2
    /\ pHmm.M >= 2
    /\ QSum(MatchOf(pPrev.t[pPrev.M])) = QZero

\* C17: without priors, parameterizing a model whose rows are normalized
\* changes no probability, and a second application changes nothing the
\* first one left.
C17_NoPriorsIdempotent ==
    /\ (LastOp = "no priors" /\ Normalized(pPrev)) => SameProbabilities(pHmm, pPrev)
    /\ (Len(pOps) = 3 /\ pOps[2] = "no priors" /\ pOps[3] = "no priors")
          => SameProbabilities(pHmm, pPrev)

\* C18: with the strategy None the reweighter leaves eff_nseq equal to nseq
\* and every transition and emission count as it was, for every nseq.
C18_NoneLeavesCounts ==
    pOps = <<"p7_EFFN_NONE">> =>
        /\ pHmm.eff_nseq = pHmm.nseq
        /\ SameProbabilities(pHmm, pPrev)

(***************************************************************************)
(* Claims about the names of the alignments.                               *)
(***************************************************************************)
\* C19: after every successful return of set_msa_name, nnamed is 0 or 1
\* when one alignment has been read and equals nali when more than one has
\* been read.
C19_NamedCount ==
    fatal # "name" =>
        /\ nali = 0 => nnamed = 0
        /\ nali = 1 => nnamed \in {0, 1}
        /\ nali > 1 => nnamed = nali

\* three alignments have been read and named, and nothing has failed
C19_Witness == fatal = "" /\ nali = 3 /\ nnamed = 3

\* C20: when set_msa_name fails on a second or later alignment, the HMM of
\* the first alignment has already been built.
C20_NameFailureAfterFirstBuild ==
    (fatal = "name" /\ nali >= 2) => built[1] >= 1

(***************************************************************************)
(* Further claims about the distributed run.                               *)
(***************************************************************************)
\* C21: mpi_master returns to its caller exactly when the run was
\* successful: every alignment was read up to end-of-data and every result
\* was built and written without error; otherwise it ends in a fatal
\* failure after the shutdown.  Stated for the runs that read at least one
\* alignment.
C21_ReturnsIffSuccessful ==
    (MasterEnded /\ mnali >= 1) =>
        (mpc = "returned" <=> (rstatus = eslEOF /\ xstatus = eslOK))

(***************************************************************************)
(* Further claims about the thread pool.                                   *)
(***************************************************************************)
\* C22: the pending list of the reader is sorted in strictly increasing
\* index order, holds no index twice, and every index in it is greater than
\* the next expected output index.
C22_PendingSortedAhead ==
    /\ \A i \in 1..Len(top) : top[i].nali > next
    /\ \A i, j \in 1..Len(top) : i < j => top[i].nali < top[j].nali

\* two results wait in the pending list for the first one
C22_Witness == Len(top) = 2 /\ next = 1

\* the places a work item can be in, as sequences of items
HeldByReader == IF ritem.id # 0 THEN <<ritem>> ELSE <<>>

RECURSIVE HeldByWorkers(_)
HeldByWorkers(w) ==
    IF w = 0 THEN <<>>
    ELSE HeldByWorkers(w - 1) \o (IF witem[w].id # 0 THEN <<witem[w]>> ELSE <<>>)

Everywhere == rq \o wq \o HeldByReader \o HeldByWorkers(ncpus)

Occurrences(i) == Cardinality({k \in 1..Len(Everywhere) : Everywhere[k].id = i})

\* C23: exactly 2 x workerCount slots circulate and each one is in exactly
\* one place (with the reader, in the worker queue, with one worker, or in
\* the reader queue); so the worker queue never holds more than
\* 2 x workerCount items, and at most 2 x workerCount alignments are read but
\* not yet collected back.
C23_SlotsCirculate ==
    /\ Len(Everywhere) = SlotsPerCpu * ncpus
    /\ \A i \in 1..(SlotsPerCpu * ncpus) : Occurrences(i) = 1
    /\ Len(wq) <= SlotsPerCpu * ncpus
    /\ nali - processed <= SlotsPerCpu * ncpus

\* one worker, both slots published and waiting in the worker queue
C23_Witness ==
    ncpus = 1 /\ Len(wq) = SlotsPerCpu /\ nali - processed = SlotsPerCpu

\* worker w dequeues an item in this step
Dequeues(w) == witem'[w] # witem[w] /\ witem'[w].id # 0

\* the position in the worker queue of the item worker w dequeues
TakenAt(w) == CHOOSE p \in 1..Len(wq) : wq[p].id = witem'[w].id

\* C24: a worker leaves its loop only when it dequeues an item carrying no
\* alignment; every item carrying an alignment that it dequeued is built,
\* marked processed and returned to the reader before the worker dequeues
\* again; and no worker dequeues a no-alignment item while an alignment
\* published earlier is still waiting in the worker queue.
C24_WorkerLoop ==
    [][\A w \in Cpus :
         /\ (wpc'[w] = "leave" /\ wpc[w] # "leave") =>
                (Dequeues(w) /\ witem'[w].msa = NULL)
         /\ (witem[w].msa # NULL /\ witem'[w] # witem[w]) =>
                /\ built'[witem[w].msa] = built[witem[w].msa] + 1
                /\ rq' = Append(rq, [witem[w] EXCEPT !.hmm = witem[w].msa,
                                                     !.processed = TRUE])
         /\ (Dequeues(w) /\ witem'[w].msa = NULL) =>
                /\ \A k \in 1..(TakenAt(w) - 1) : wq[k].msa = NULL
                /\ \A k \in 1..Len(wq') : wq'[k].msa = NULL]_vars

\* a worker has left its loop after two alignments were read and one written
C24_Witness ==
    \E w \in Cpus : wpc[w] = "leave" /\ nali >= 2 /\ Len(out) >= 1

(***************************************************************************)
(* A further claim about the estimator.                                    *)
(***************************************************************************)
\* C28: for every model of M >= 2 nodes, whenever the estimator assigns
\* max_length, the value is at least 3 and at most 200000: the stop
\* condition is first evaluated at column 3, never at columns 1 or 2.
C28_AssignedFromThree ==
    \A i \in 1..Len(eRuns) :
        (eHmm.M >= 2 /\ eRuns[i].max_length # eHmm.max_length) =>
            /\ eRuns[i].max_length >= 3
            /\ eRuns[i].max_length <= LengthBound

\* a model of two nodes or more whose max_length was assigned at column 3
C28_Witness ==
    \E i \in 1..Len(eRuns) :
        eHmm.M >= 2 /\ eRuns[i].max_length # eHmm.max_length /\ eRuns[i].col = 3

(***************************************************************************)
(* A further claim about the master of the distributed run.                *)
(***************************************************************************)
\* C27: results are written in the order in which the worker messages are
\* received, and each written result carries the index and the alignment
\* the master most recently dispatched to the worker the message came from
\* (the alignment that worker built the result from).
C27_WrittenAsDispatched ==
    [][mout' # mout =>
         \E w \in Workers :
            /\ result[w].st = eslOK /\ result'[w] = NoMsg
            /\ msaidx[w] # 0
            /\ msaidx[w] = result[w].msa
            /\ msalist[w] = result[w].msa
            /\ mout' = Append(mout, [idx |-> msaidx[w], msa |-> msalist[w],
                                     hmm |-> result[w].msa, from |-> w])]_vars

\* two workers, and the result of the second alignment was written first
C27_Witness ==
    /\ Len(mout) = 2
    /\ mout[1].idx = 2 /\ mout[1].from = 2
    /\ mout[2].idx = 1 /\ mout[2].from = 1

(***************************************************************************)
(* Claims about the converter.                                             *)
(***************************************************************************)
\* the counts are filled in and not yet scaled
Filled == cvpc = "filled"

\* position 0 of the profile
First == cvProfile.pos[0]

\* C25: after the conversion of a profile of L >= 1 positions, before the
\* scaling by nseq, state 0 holds: a match-emission row that is 1 for the
\* first residue and 0 elsewhere; the insertion emissions of position 0;
\* II = pre-align to pre-align and IM = pre-align to begin of position 0;
\* MM, MI, MD = the from-Match distribution of position 0.  For every
\* alphabet of two residues or more.
C25_StateZero ==
    (Filled /\ cvProfile.length >= 1 /\ cvK >= 2) =>
        /\ \A x \in 1..cvK : cvHmm.mat[0][x] = (IF x = 1 THEN QOne ELSE QZero)
        /\ \A r \in 1..cvK :
              cvHmm.ins[0][cvDigitize[r]] = First.InsertionEmission[r]
        /\ cvHmm.t[0].II = First.PreAlign.toPreAlign
        /\ cvHmm.t[0].IM = First.PreAlign.toBegin
        /\ cvHmm.t[0].MM = First.Match.toMatch
        /\ cvHmm.t[0].MI = First.Match.toInsertion
        /\ cvHmm.t[0].MD = First.Match.toDeletion

\* three residues, codes that are not in the order of the profile, and a
\* position 0 whose pre-align and insertion distributions differ
C25_Witness ==
    /\ Filled /\ cvProfile.length >= 1 /\ cvK = 3
    /\ cvDigitize[1] # 1
    /\ First.PreAlign.toPreAlign # First.Insertion.toInsertion
    /\ First.InsertionEmission[1] # First.InsertionEmission[2]

\* C26: after the conversion of a profile of L > 1 positions, before the
\* scaling by nseq, state L-1 holds MM = IM = post-align to terminal and
\* MI = II = post-align to post-align of position L-1, while its MD, DM and
\* DD are not taken from the profile (they keep the zero of the new model);
\* the states 1..L-2 hold the from-Match, from-Insertion and from-Deletion
\* values of their positions unchanged.
C26_LastAndInnerStates ==
    (Filled /\ cvProfile.length > 1) =>
        LET L    == cvProfile.length
            last == cvProfile.pos[L - 1]
        IN /\ cvHmm.t[L - 1].MM = last.PostAlign.toTerminal
           /\ cvHmm.t[L - 1].IM = last.PostAlign.toTerminal
           /\ cvHmm.t[L - 1].MI = last.PostAlign.toPostAlign
           /\ cvHmm.t[L - 1].II = last.PostAlign.toPostAlign
           /\ cvHmm.t[L - 1].MD = QZero
           /\ cvHmm.t[L - 1].DM = QZero
           /\ cvHmm.t[L - 1].DD = QZero
           /\ \A k \in 1..(L - 2) :
                 /\ cvHmm.t[k].MM = cvProfile.pos[k].Match.toMatch
                 /\ cvHmm.t[k].MI = cvProfile.pos[k].Match.toInsertion
                 /\ cvHmm.t[k].MD = cvProfile.pos[k].Match.toDeletion
                 /\ cvHmm.t[k].IM = cvProfile.pos[k].Insertion.toMatch
                 /\ cvHmm.t[k].II = cvProfile.pos[k].Insertion.toInsertion
                 /\ cvHmm.t[k].DM = cvProfile.pos[k].Deletion.toMatch
                 /\ cvHmm.t[k].DD = cvProfile.pos[k].Deletion.toDeletion

\* three positions; the last one has a from-Deletion and a from-Match
\* distribution that differ from what state L-1 holds
C26_Witness ==
    /\ Filled /\ cvProfile.length = 3
    /\ cvProfile.pos[2].Deletion.toDeletion # QZero
    /\ cvProfile.pos[2].Match.toMatch # cvProfile.pos[2].PostAlign.toTerminal
    /\ cvProfile.pos[1].Match.toDeletion # QZero

\* C29: the converter maps the positions 0..L-1 of the profile onto the
\* states 0..L-1 and never writes the transition or emission rows of state
\* M = L: after the conversion they still hold the values of the
\* zero-initialized model.
C29_StateMUntouched ==
    (cvpc \in {"filled", "returned"}) =>
        LET L == cvProfile.length
        IN /\ cvHmm.M = L
           /\ \A f \in DOMAIN cvHmm.t[L] : cvHmm.t[L][f] = QZero
           /\ \A x \in 1..cvK : cvHmm.mat[L][x] = QZero /\ cvHmm.ins[L][x] = QZero
           /\ Filled =>
                 \A pos_i \in 1..(L - 1) : \A r \in 1..cvK :
                    /\ cvHmm.mat[pos_i][cvDigitize[r]] =
                          cvProfile.pos[pos_i].MatchEmission[r]
                    /\ cvHmm.ins[pos_i][cvDigitize[r]] =
                          cvProfile.pos[pos_i].InsertionEmission[r]

\* the converter has returned the scaled counts of a profile of two
\* positions whose last position has emissions that are not zero
C29_Witness ==
    /\ cvpc = "returned" /\ cvProfile.length = 2 /\ cvHmm.nseq = 2
    /\ cvHmm.mat[1] # cvHmm.mat[2]

(***************************************************************************)
(* A claim about the loop the input goes to.                               *)
(***************************************************************************)
\* C30: when the input is an alignment profile, at most one profile is
\* read and built in a run, and by the serial loop: it is never published
\* to the worker queue, and the workers of the thread pool only ever run
\* the builder without a profile, whatever the number of workers.
C30_ProfileIsSerial ==
    /\ runFormat = eslMSAFILE_PROFILLIC =>
          /\ runNali <= 1
          /\ Len(runBuilds) <= 1
          /\ runQueue = <<>>
          /\ \A i \in 1..Len(runBuilds) : runBuilds[i].by = "serial"
    /\ \A i \in 1..Len(runBuilds) :
          runBuilds[i].by = "worker" =>
             ~runBuilds[i].profile_ptr /\ runBuilds[i].input = "alignment"

\* a profile was built by the serial loop of a run with two worker threads
\* on a file that would have been read again
C30_Witness ==
    /\ runFormat = eslMSAFILE_PROFILLIC /\ runCpus = 2 /\ runFile >= 2
    /\ runpc = "done"
    /\ Len(runBuilds) = 1 /\ runBuilds[1].profile_ptr
=============================================================================
